---- MODULE Spec2Model ----
(***************************************************************************)
(* Dividend tracker: the data model of models.py (Stock, Dividend,         *)
(* DividendSchedule, Portfolio), the analytics of calculator.py, the form  *)
(* handlers of the desktop window (gui.py) and edit_stock of the web shell *)
(* (app.py).                                                               *)
(*                                                                         *)
(* stocks, dividends and schedules are the fields of the Portfolio; gui is *)
(* the window with its rows and tables; today is date.today(); call is the *)
(* last operation with its arguments and its result.                       *)
(*                                                                         *)
(* Decimal values are exact rationals <<n, d>> in lowest terms with d > 0. *)
(* Addition, subtraction and multiplication of the small operands used     *)
(* here are exact in Python's 28-digit context as well; the rounding of an *)
(* inexact quotient or power to 28 significant digits is not represented.  *)
(* The exceptions Decimal arithmetic raises (division by zero, 0 ** 0, a   *)
(* negative base with a fractional exponent) are represented.              *)
(* Dates are <<year, month, day>>, ordered as datetime.date orders them.   *)
(***************************************************************************)
EXTENDS Integers, Sequences, FiniteSets, TLC

VARIABLES stocks, dividends, schedules, today, gui, call

vars == <<stocks, dividends, schedules, today, gui, call>>

(***************************************************************************)
(* Bounds of the exploration.                                              *)
(***************************************************************************)
MaxStocks == 2
MaxDividends == 2
MaxSchedules == 2

\* Python's None
None == <<>>

(***************************************************************************)
(* Results of a call: a returned value or a raised exception.              *)
(***************************************************************************)
Ok(v) == [raised |-> "", val |-> v]
Raise(e) == [raised |-> e, val |-> None]

(***************************************************************************)
(* decimal.Decimal                                                         *)
(***************************************************************************)
Abs(n) == IF n < 0 THEN -n ELSE n

RECURSIVE GCD(_, _)
GCD(a, b) == IF b = 0 THEN a ELSE GCD(b, a % b)

\* Operands are bound once (x \in {a}), so that a nested expression passed as
\* an operand is evaluated a single time.
Norm(n, d) ==
    CHOOSE r \in {<<((IF y < 0 THEN -1 ELSE 1) * x) \div GCD(Abs(x), Abs(y)),
                    ((IF y < 0 THEN -1 ELSE 1) * y) \div GCD(Abs(x), Abs(y))>> :
                        x \in {n}, y \in {d}} : TRUE

Dec(n) == <<n, 1>>
DecQ(n, d) == Norm(n, d)
Zero == Dec(0)
One == Dec(1)
Hundred == Dec(100)
Twelve == Dec(12)

DecAdd(a, b) ==
    CHOOSE r \in {Norm(x[1] * y[2] + y[1] * x[2], x[2] * y[2]) :
                        x \in {a}, y \in {b}} : TRUE
DecSub(a, b) ==
    CHOOSE r \in {Norm(x[1] * y[2] - y[1] * x[2], x[2] * y[2]) :
                        x \in {a}, y \in {b}} : TRUE
DecMul(a, b) ==
    CHOOSE r \in {Norm(x[1] * y[1], x[2] * y[2]) : x \in {a}, y \in {b}} : TRUE
DecLT(a, b) == a[1] * b[2] < b[1] * a[2]

\* a / b: DivisionByZero for x / 0, InvalidOperation for 0 / 0
DecDiv(a, b) ==
    CHOOSE r \in {IF y[1] = 0
                  THEN (IF x[1] = 0 THEN Raise("InvalidOperation")
                        ELSE Raise("DivisionByZero"))
                  ELSE Ok(Norm(x[1] * y[2], x[2] * y[1])) :
                        x \in {a}, y \in {b}} : TRUE

\* x ** n for an integer n >= 0 and x # 0 (or n > 0)
RECURSIVE DecPowInt(_, _)
DecPowInt(x, n) == IF n = 0 \/ x = One THEN One ELSE DecMul(x, DecPowInt(x, n - 1))

\* The Decimal coef * base ** (n / 12), kept exactly: coef absorbs the whole
\* powers of base, twelfths \in 0..11 is what remains of the exponent.
Real(coef, base, n) ==
    CHOOSE r \in {IF b = Zero /\ k > 0 THEN [coef |-> Zero, base |-> One, twelfths |-> 0]
                  ELSE IF c = Zero \/ b = One \/ k % 12 = 0
                       THEN [coef |-> DecMul(c, DecPowInt(b, k \div 12)),
                             base |-> One, twelfths |-> 0]
                  ELSE [coef |-> DecMul(c, DecPowInt(b, k \div 12)),
                        base |-> b, twelfths |-> k % 12] :
                        c \in {coef}, b \in {base}, k \in {n}} : TRUE

RealOf(x) == Real(x, One, 0)
RealZero == RealOf(Zero)

\* Decimal * Decimal and Decimal + Decimal on such values; the terms the
\* code adds share their growth factor
RealMulDec(x, r) ==
    CHOOSE v \in {Real(DecMul(x, s.coef), s.base, s.twelfths) : s \in {r}} : TRUE
RealAdd(a, b) ==
    CHOOSE v \in {IF x = RealZero THEN y
                  ELSE IF y = RealZero THEN x
                  ELSE Real(DecAdd(x.coef, y.coef), x.base, x.twelfths) :
                        x \in {a}, y \in {b}} : TRUE

\* x ** (Decimal('1') / Decimal('12')): InvalidOperation for a negative x
DecRoot12(x) ==
    IF DecLT(x, Zero) THEN Raise("InvalidOperation") ELSE Ok(Real(One, x, 1))

\* r ** Decimal(str(m)) for an integer m >= 0: InvalidOperation for 0 ** 0
RealPow(r, m) ==
    CHOOSE v \in {IF x = RealZero /\ k = 0 THEN Raise("InvalidOperation")
                  ELSE Ok(Real(DecPowInt(x.coef, k), x.base, x.twelfths * k)) :
                        x \in {r}, k \in {m}} : TRUE

(***************************************************************************)
(* datetime.date and calendar.monthrange                                   *)
(***************************************************************************)
IsLeap(y) == (y % 4 = 0) /\ ((y % 100 # 0) \/ (y % 400 = 0))

\* monthrange(year, month)[1]
DaysInMonth(y, m) ==
    IF m = 2 THEN (IF IsLeap(y) THEN 29 ELSE 28)
    ELSE IF m \in {4, 6, 9, 11} THEN 30 ELSE 31

Date(y, m, d) == <<y, m, d>>

DateLT(a, b) ==
    \/ a[1] < b[1]
    \/ a[1] = b[1] /\ a[2] < b[2]
    \/ a[1] = b[1] /\ a[2] = b[2] /\ a[3] < b[3]

DateLE(a, b) == a = b \/ DateLT(a, b)

\* a - timedelta(days = n), one month at a time
RECURSIVE DateMinusDays(_, _)
DateMinusDays(a, n) ==
    IF n < a[3] THEN Date(a[1], a[2], a[3] - n)
    ELSE IF a[2] > 1
         THEN DateMinusDays(Date(a[1], a[2] - 1, DaysInMonth(a[1], a[2] - 1)), n - a[3])
    ELSE DateMinusDays(Date(a[1] - 1, 12, 31), n - a[3])

\* a + timedelta(days = n), one month at a time
RECURSIVE DatePlusDays(_, _)
DatePlusDays(a, n) ==
    IF a[3] + n <= DaysInMonth(a[1], a[2]) THEN Date(a[1], a[2], a[3] + n)
    ELSE IF a[2] < 12
         THEN DatePlusDays(Date(a[1], a[2] + 1, 1), n - (DaysInMonth(a[1], a[2]) - a[3]) - 1)
    ELSE DatePlusDays(Date(a[1] + 1, 1, 1), n - (31 - a[3]) - 1)

(***************************************************************************)
(* models.py                                                               *)
(***************************************************************************)
Stock(ticker, name, shares, purchase_price, current_price) ==
    [ticker |-> ticker, name |-> name, shares |-> shares,
     purchase_price |-> purchase_price, current_price |-> current_price]

\* Stock.total_value
total_value(stock) == DecMul(stock.shares, stock.current_price)

Dividend(ticker, payment_date, amount_per_share, shares_owned, payment_status) ==
    [ticker |-> ticker, payment_date |-> payment_date,
     amount_per_share |-> amount_per_share, shares_owned |-> shares_owned,
     payment_status |-> payment_status]

\* a plausible slip: the first holding is returned, whatever its ticker
get_stock_first(stks, ticker) ==
    IF stks # <<>> THEN stks[1] ELSE None

\* get_stock: the first holding with the ticker, None when there is none
get_stock(stks, ticker) ==
    IF \E i \in 1..Len(stks) : stks[i].ticker = ticker
    THEN stks[CHOOSE i \in 1..Len(stks) :
                /\ stks[i].ticker = ticker
                /\ \A j \in 1..(i - 1) : stks[j].ticker # ticker]
    ELSE None

DividendSchedule(ticker, frequency, typical_amount, next_payment_date) ==
    [ticker |-> ticker, frequency |-> frequency,
     typical_amount |-> typical_amount, next_payment_date |-> next_payment_date]

\* str.lower on the frequency strings in use
Lower(str) ==
    CASE str \in {"Monthly", "MONTHLY"} -> "monthly"
      [] str \in {"Quarterly", "QUARTERLY"} -> "quarterly"
      [] str \in {"Semi-Annual", "SEMI-ANNUAL"} -> "semi-annual"
      [] str \in {"Annual", "ANNUAL"} -> "annual"
      [] str = "Weekly" -> "weekly"
      [] OTHER -> str

\* a plausible slip: the frequency is looked up as it is spelled
get_annual_frequency_case_sensitive(schedule) ==
    LET f == schedule.frequency
    IN  CASE f = "monthly" -> 12
          [] f = "quarterly" -> 4
          [] f = "semi-annual" -> 2
          [] f = "annual" -> 1
          [] OTHER -> 4

\* DividendSchedule.get_annual_frequency
get_annual_frequency(schedule) ==
    LET f == Lower(schedule.frequency)
    IN  CASE f = "monthly" -> 12
          [] f = "quarterly" -> 4
          [] f = "semi-annual" -> 2
          [] f = "annual" -> 1
          [] OTHER -> 4

\* portfolio.schedules is a dict: here the sequence of its items
\* [key, value] in insertion order, one per key. schedules.get(ticker)
schedule_of(scheds, ticker) ==
    IF \E i \in 1..Len(scheds) : scheds[i].key = ticker
    THEN scheds[CHOOSE i \in 1..Len(scheds) : scheds[i].key = ticker].value
    ELSE None

\* Portfolio.total_portfolio_value: sum(stock.total_value for stock in stocks)
RECURSIVE value_loop(_, _, _)
value_loop(stks, i, total) ==
    IF i > Len(stks) THEN total
    ELSE value_loop(stks, i + 1, DecAdd(total, total_value(stks[i])))

total_portfolio_value(stks) == value_loop(stks, 1, Zero)

\* a plausible slip: the total follows the holding's live share count
total_amount_live(dividend) ==
    LET stock == get_stock(stocks, dividend.ticker)
    IN  IF stock = None THEN DecMul(dividend.amount_per_share, dividend.shares_owned)
        ELSE DecMul(dividend.amount_per_share, stock.shares)

\* Dividend.total_amount
total_amount(dividend) == DecMul(dividend.amount_per_share, dividend.shares_owned)

(***************************************************************************)
(* calculator.py                                                           *)
(***************************************************************************)
\* a plausible slip: events dated on the end date are skipped
RECURSIVE income_loop_end_exclusive(_, _, _, _, _)
income_loop_end_exclusive(divs, start_date, end_date, i, total) ==
    IF i > Len(divs) THEN total
    ELSE IF start_date # None /\ DateLT(divs[i].payment_date, start_date)
         THEN income_loop_end_exclusive(divs, start_date, end_date, i + 1, total)
    ELSE IF DateLE(end_date, divs[i].payment_date)
         THEN income_loop_end_exclusive(divs, start_date, end_date, i + 1, total)
    ELSE income_loop_end_exclusive(divs, start_date, end_date, i + 1,
                                   DecAdd(total, total_amount(divs[i])))

\* a plausible slip: events dated on the start date are skipped
RECURSIVE income_loop_start_exclusive(_, _, _, _, _)
income_loop_start_exclusive(divs, start_date, end_date, i, total) ==
    IF i > Len(divs) THEN total
    ELSE IF start_date # None /\ DateLE(divs[i].payment_date, start_date)
         THEN income_loop_start_exclusive(divs, start_date, end_date, i + 1, total)
    ELSE IF DateLT(end_date, divs[i].payment_date)
         THEN income_loop_start_exclusive(divs, start_date, end_date, i + 1, total)
    ELSE income_loop_start_exclusive(divs, start_date, end_date, i + 1,
                                     DecAdd(total, total_amount(divs[i])))

\* the loop of calculate_total_dividend_income over portfolio.dividends
RECURSIVE income_loop(_, _, _, _, _)
income_loop(divs, start_date, end_date, i, total) ==
    IF i > Len(divs) THEN total
    ELSE IF start_date # None /\ DateLT(divs[i].payment_date, start_date)
         THEN income_loop(divs, start_date, end_date, i + 1, total)
    ELSE IF DateLT(end_date, divs[i].payment_date)
         THEN income_loop(divs, start_date, end_date, i + 1, total)
    ELSE income_loop(divs, start_date, end_date, i + 1,
                     DecAdd(total, total_amount(divs[i])))

calculate_total_dividend_income(divs, start_date, end_date) ==
    LET end == IF end_date = None THEN today ELSE end_date
    IN  income_loop(divs, start_date, end, 1, Zero)

\* a plausible slip: the per-payment amount is not annualised
RECURSIVE annual_loop_no_frequency(_, _, _, _)
annual_loop_no_frequency(stks, scheds, i, total_annual) ==
    IF i > Len(scheds) THEN total_annual
    ELSE LET ticker == scheds[i].key
             schedule == scheds[i].value
             stock == get_stock(stks, ticker)
         IN  IF stock = None
             THEN annual_loop_no_frequency(stks, scheds, i + 1, total_annual)
             ELSE annual_loop_no_frequency(stks, scheds, i + 1,
                      DecAdd(total_annual,
                             DecMul(schedule.typical_amount, stock.shares)))

\* the loop of calculate_annual_dividend_income over portfolio.schedules.items()
RECURSIVE annual_loop(_, _, _, _)
annual_loop(stks, scheds, i, total_annual) ==
    IF i > Len(scheds) THEN total_annual
    ELSE LET ticker == scheds[i].key
             schedule == scheds[i].value
             stock == get_stock(stks, ticker)
             annual_frequency == get_annual_frequency(schedule)
             annual_dividend_per_share ==
                 DecMul(schedule.typical_amount, Dec(annual_frequency))
             annual_total == DecMul(annual_dividend_per_share, stock.shares)
         IN  IF stock = None
             THEN annual_loop(stks, scheds, i + 1, total_annual)
             ELSE annual_loop(stks, scheds, i + 1, DecAdd(total_annual, annual_total))

calculate_annual_dividend_income(stks, scheds) ==
    annual_loop(stks, scheds, 1, Zero)

\* a plausible slip: the zero-price guard is missing
calculate_dividend_yield_unguarded(stock, annual_dividend_per_share) ==
    LET q == DecDiv(annual_dividend_per_share, stock.current_price)
    IN  IF q.raised # "" THEN q ELSE Ok(DecMul(q.val, Hundred))

calculate_dividend_yield(stock, annual_dividend_per_share) ==
    IF stock.current_price = Zero THEN Ok(Zero)
    ELSE LET q == DecDiv(annual_dividend_per_share, stock.current_price)
         IN  IF q.raised # "" THEN q ELSE Ok(DecMul(q.val, Hundred))

\* a plausible slip: the zero-value guard is missing
calculate_portfolio_dividend_yield_unguarded(stks, scheds) ==
    LET total == total_portfolio_value(stks)
        annual_income == calculate_annual_dividend_income(stks, scheds)
        q == DecDiv(annual_income, total)
    IN  IF q.raised # "" THEN q ELSE Ok(DecMul(q.val, Hundred))

calculate_portfolio_dividend_yield(stks, scheds) ==
    LET total == total_portfolio_value(stks)
        annual_income == calculate_annual_dividend_income(stks, scheds)
        q == DecDiv(annual_income, total)
    IN  IF total = Zero THEN Ok(Zero)
        ELSE IF q.raised # "" THEN q ELSE Ok(DecMul(q.val, Hundred))

\* a plausible slip: the annual amount is not spread over the 12 months
monthly_expected_annual(schedule, stock) ==
    DecMul(DecMul(schedule.typical_amount, stock.shares),
           Dec(get_annual_frequency(schedule)))

\* typical_amount * shares * Decimal(str(frequency)) / Decimal('12')
monthly_expected(schedule, stock) ==
    DecDiv(DecMul(DecMul(schedule.typical_amount, stock.shares),
                  Dec(get_annual_frequency(schedule))), Twelve).val

\* the inner loop of project_dividend_income over portfolio.schedules.items()
RECURSIVE month_income_loop(_, _, _, _, _)
month_income_loop(stks, scheds, growth_factor, i, monthly_income) ==
    IF i > Len(scheds) THEN monthly_income
    ELSE LET ticker == scheds[i].key
             schedule == scheds[i].value
             stock == get_stock(stks, ticker)
         IN  IF stock = None
             THEN month_income_loop(stks, scheds, growth_factor, i + 1, monthly_income)
             ELSE month_income_loop(stks, scheds, growth_factor, i + 1,
                      RealAdd(monthly_income,
                              RealMulDec(monthly_expected(schedule, stock),
                                         growth_factor)))

\* the target month of an offset and its last day
month_end_of(month_offset) ==
    LET target == today[2] + month_offset
        target_year == today[1] + (target - 1) \div 12
        target_month == ((target - 1) % 12) + 1
        last_day == DaysInMonth(target_year, target_month)
    IN  Date(target_year, target_month, last_day)

\* the loop of project_dividend_income over range(months); the offset and
\* the growth factor of an iteration are bound once
RECURSIVE project_loop(_, _, _, _, _, _)
project_loop(stks, scheds, months, monthly_growth, month_offset, projections) ==
    IF month_offset >= months THEN Ok(projections)
    ELSE CHOOSE r \in
            {IF growth_factor.raised # "" THEN growth_factor
             ELSE project_loop(stks, scheds, months, monthly_growth, m + 1,
                      Append(projections,
                             <<month_end_of(m),
                               month_income_loop(stks, scheds, growth_factor.val,
                                                 1, RealZero)>>)) :
                m \in {month_offset},
                growth_factor \in {RealPow(monthly_growth, month_offset)}} : TRUE

project_dividend_income(stks, scheds, months, growth_rate) ==
    LET monthly_growth ==
            DecRoot12(DecAdd(One, DecDiv(growth_rate, Hundred).val))
    IN  CHOOSE r \in {IF g.raised # "" THEN g
                      ELSE project_loop(stks, scheds, months, g.val, 0, <<>>) :
                            g \in {monthly_growth}} : TRUE

(***************************************************************************)
(* Inputs of the income specification                                      *)
(***************************************************************************)
Tickers == {"A", "B"}
Todays == {Date(2024, 3, 15), Date(2025, 1, 20)}

IncomeStocks == {Stock("A", "a", One, One, One)}
IncomeShares == {Dec(1), Dec(3)}
IncomeDates == {DateMinusDays(today, 30), today, DatePlusDays(today, 1)}
IncomeDividends ==
    {Dividend("A", d, Dec(a), Dec(s), "paid") :
        d \in IncomeDates, a \in {1, 2}, s \in {2}}
IncomeStarts == {None, DateMinusDays(today, 60), DateMinusDays(today, 30),
                 DateMinusDays(today, 10)}
IncomeEnds == {None, DateMinusDays(today, 30)}

NoCall == [op |-> "none", args |-> None, ret |-> None]

\* DividendTrackerApp.__init__: the window's holding rows, dividend rows, the
\* two tables showing them and the lines of the analytics text box
DividendTrackerApp ==
    [portfolio |-> <<>>, dividends |-> <<>>, portfolio_tv |-> <<>>, div_tv |-> <<>>,
     output |-> <<>>]

Init ==
    /\ stocks = <<>>
    /\ dividends = <<>>
    /\ schedules = <<>>
    /\ gui = DividendTrackerApp
    /\ today \in Todays
    /\ call = NoCall

\* Portfolio.add_stock
add_stock(stock) ==
    /\ Len(stocks) < MaxStocks
    /\ stocks' = Append(stocks, stock)
    /\ call' = [op |-> "add_stock", args |-> <<stock>>, ret |-> None]
    /\ UNCHANGED <<dividends, schedules, today, gui>>

\* Portfolio.add_dividend
add_dividend(dividend) ==
    /\ dividends' = Append(dividends, dividend)
    /\ call' = [op |-> "add_dividend", args |-> <<dividend>>, ret |-> None]
    /\ UNCHANGED <<stocks, schedules, today, gui>>

\* an external edit of a holding's share count: stock.shares = shares
set_shares(i, shares) ==
    /\ i \in 1..Len(stocks)
    /\ stocks[i].shares # shares
    /\ stocks' = [stocks EXCEPT ![i].shares = shares]
    /\ call' = [op |-> "set_shares", args |-> <<i, shares>>, ret |-> None]
    /\ UNCHANGED <<dividends, schedules, today, gui>>

\* a call of calculate_total_dividend_income(portfolio, start_date, end_date)
CallTotalIncome(start_date, end_date) ==
    /\ call' = [op |-> "total_income", args |-> <<start_date, end_date>>,
                ret |-> calculate_total_dividend_income(dividends, start_date, end_date)]
    /\ UNCHANGED <<stocks, dividends, schedules, today, gui>>

\* a plausible slip: the schedule is added without looking for its ticker
add_schedule_append(schedule) ==
    /\ Len(schedules) < MaxSchedules
    /\ schedules' = Append(schedules, [key |-> schedule.ticker, value |-> schedule])
    /\ call' = [op |-> "add_schedule", args |-> <<schedule>>, ret |-> None]
    /\ UNCHANGED <<stocks, dividends, today, gui>>

\* Portfolio.add_schedule: self.schedules[schedule.ticker] = schedule
add_schedule(schedule) ==
    /\ IF \E i \in 1..Len(schedules) : schedules[i].key = schedule.ticker
       THEN schedules' =
                [i \in 1..Len(schedules) |->
                    IF schedules[i].key = schedule.ticker
                    THEN [key |-> schedule.ticker, value |-> schedule]
                    ELSE schedules[i]]
       ELSE /\ Len(schedules) < MaxSchedules
            /\ schedules' = Append(schedules,
                                   [key |-> schedule.ticker, value |-> schedule])
    /\ call' = [op |-> "add_schedule", args |-> <<schedule>>, ret |-> None]
    /\ UNCHANGED <<stocks, dividends, today, gui>>

\* a call of calculate_annual_dividend_income(portfolio)
CallAnnualIncome ==
    /\ call' = [op |-> "annual_income", args |-> None,
                ret |-> calculate_annual_dividend_income(stocks, schedules)]
    /\ UNCHANGED <<stocks, dividends, schedules, today, gui>>

\* a call of calculate_dividend_yield(stock, annual_dividend_per_share)
CallDividendYield(i, annual_dividend_per_share) ==
    /\ i \in 1..Len(stocks)
    /\ call' = [op |-> "dividend_yield", args |-> <<i, annual_dividend_per_share>>,
                ret |-> calculate_dividend_yield(stocks[i], annual_dividend_per_share)]
    /\ UNCHANGED <<stocks, dividends, schedules, today, gui>>

\* a call of calculate_portfolio_dividend_yield(portfolio)
CallPortfolioYield ==
    /\ call' = [op |-> "portfolio_yield", args |-> None,
                ret |-> calculate_portfolio_dividend_yield(stocks, schedules)]
    /\ UNCHANGED <<stocks, dividends, schedules, today, gui>>

\* a call of project_dividend_income(portfolio, months, growth_rate)
CallProject(months, growth_rate) ==
    /\ call' = [op |-> "project", args |-> <<months, growth_rate>>,
                ret |-> project_dividend_income(stocks, schedules, months, growth_rate)]
    /\ UNCHANGED <<stocks, dividends, schedules, today, gui>>

\* calculate_total_dividend_income over [Jan 1, Dec 31] of a year and over
\* [first day, last day] of each of its months
CallYearIncome(year) ==
    /\ call' = [op |-> "year_income", args |-> <<year>>,
                ret |-> [year |-> calculate_total_dividend_income(
                                      dividends, Date(year, 1, 1), Date(year, 12, 31)),
                         months |-> [m \in 1..12 |->
                                      calculate_total_dividend_income(
                                          dividends, Date(year, m, 1),
                                          Date(year, m, DaysInMonth(year, m)))]]]
    /\ UNCHANGED <<stocks, dividends, schedules, today, gui>>

Next ==
    \/ \E s \in IncomeStocks : add_stock(s)
    \/ \E d \in IncomeDividends : Len(dividends) < MaxDividends /\ add_dividend(d)
    \/ \E i \in 1..MaxStocks, n \in IncomeShares : set_shares(i, n)
    \/ \E s \in IncomeStarts, e \in IncomeEnds : CallTotalIncome(s, e)

Spec == Init /\ [][Next]_vars

(***************************************************************************)
(* The year specification: events on the month boundaries of a leap year   *)
(* and of the year after it.                                               *)
(***************************************************************************)
Years == {2024, 2025}
YearDates ==
    {Date(2024, m, 1) : m \in 1..12}
    \cup {Date(2024, m, DaysInMonth(2024, m)) : m \in 1..12}
    \cup {Date(2024, 2, 28), Date(2023, 12, 31),
          Date(2025, 1, 1), Date(2025, 2, 28), Date(2025, 3, 1), Date(2025, 12, 31)}
YearDividends == {Dividend("A", d, One, One, "paid") : d \in YearDates}

NextYear ==
    \/ \E d \in YearDividends : Len(dividends) < MaxDividends /\ add_dividend(d)
    \/ \E y \in Years : CallYearIncome(y)

SpecYear == Init /\ [][NextYear]_vars

(***************************************************************************)
(* The yield specification: holdings with zero and non-zero share counts   *)
(* and prices, schedules with and without a holding.                       *)
(***************************************************************************)
YieldStocks ==
    {Stock(t, "a", Dec(n), One, Dec(p)) : t \in Tickers, n \in {0, 100}, p \in {0, 175}}
YieldSchedules ==
    {DividendSchedule(t, f, DecQ(24, 100), None) :
        t \in Tickers, f \in {"quarterly", "ANNUAL"}}
YieldDividends == {Dividend("A", Date(2024, 1, 1), One, One, "paid")}
YieldAmounts == {DecQ(96, 100), Dec(7)}

InitYield ==
    /\ stocks = <<>>
    /\ dividends = <<>>
    /\ schedules = <<>>
    /\ gui = DividendTrackerApp
    /\ today = Date(2024, 3, 15)
    /\ call = NoCall

NextYield ==
    \/ \E s \in YieldStocks : add_stock(s)
    \/ \E s \in YieldSchedules : add_schedule(s)
    \/ \E d \in YieldDividends : Len(dividends) < MaxDividends /\ add_dividend(d)
    \/ CallAnnualIncome
    \/ \E i \in 1..MaxStocks, a \in YieldAmounts : CallDividendYield(i, a)
    \/ CallPortfolioYield

SpecYield == InitYield /\ [][NextYield]_vars

(***************************************************************************)
(* The projection specification: projections over a year end and over the  *)
(* February of a leap year, with growth rates down to and below -100%.     *)
(***************************************************************************)
MaxMonths == 14
ProjectTodays == {Date(2023, 11, 15), Date(2024, 1, 31)}
ProjectStocks == {Stock("A", "a", Dec(100), One, One), Stock("B", "b", One, One, One)}
ProjectSchedules ==
    {DividendSchedule(t, f, DecQ(24, 100), None) :
        t \in Tickers, f \in {"quarterly", "annual"}}
ProjectMonths == {-1, 0, 12, MaxMonths}
ProjectRates == {Dec(0), Dec(5), Dec(-50), Dec(-100)}

InitProject ==
    /\ stocks = <<>>
    /\ dividends = <<>>
    /\ schedules = <<>>
    /\ gui = DividendTrackerApp
    /\ today \in ProjectTodays
    /\ call = NoCall

NextProject ==
    \/ \E s \in ProjectStocks : add_stock(s)
    \/ \E s \in ProjectSchedules : add_schedule(s)
    \/ \E m \in ProjectMonths, g \in ProjectRates : CallProject(m, g)

SpecProject == InitProject /\ [][NextProject]_vars

(***************************************************************************)
(* Sums over finite index sets, for stating the properties.                *)
(***************************************************************************)
RECURSIVE SumFun(_, _)
SumFun(f, S) ==
    IF S = {} THEN Zero
    ELSE LET x == CHOOSE x \in S : TRUE
         IN  DecAdd(f[x], SumFun(f, S \ {x}))

\* the events of the log dated within [start, end]
InRange(start, end) ==
    {i \in 1..Len(dividends) :
        /\ start = None \/ DateLE(start, dividends[i].payment_date)
        /\ DateLE(dividends[i].payment_date, end)}

SnapshotTotals ==
    [i \in 1..Len(dividends) |->
        DecMul(dividends[i].amount_per_share, dividends[i].shares_owned)]

(***************************************************************************)
(* C1: every recorded event's total is amount_per_share x the shares       *)
(* snapshot stored on the event, and a change of a holding's share count   *)
(* changes neither the total of any recorded event nor the result of       *)
(* calculate_total_dividend_income over any fixed date range.              *)
(***************************************************************************)
C1_SnapshotTotal ==
    [][/\ \A i \in 1..Len(dividends) :
            total_amount(dividends[i]) = SnapshotTotals[i]
       /\ call'.op = "set_shares" =>
            /\ \A i \in 1..Len(dividends) :
                    total_amount(dividends[i])' = total_amount(dividends[i])
            /\ \A s \in IncomeStarts, e \in IncomeEnds \ {None} :
                    calculate_total_dividend_income(dividends, s, e)'
                        = calculate_total_dividend_income(dividends, s, e)]_vars

\* a share count was changed while an event of that ticker, recorded with a
\* different snapshot, is in the log
C1_Witness ==
    /\ call.op = "set_shares"
    /\ \E i \in 1..Len(dividends) :
            /\ dividends[i].ticker = stocks[call.args[1]].ticker
            /\ dividends[i].shares_owned # stocks[call.args[1]].shares
            /\ dividends[i].amount_per_share # Zero
            /\ DateLE(dividends[i].payment_date, today)

(***************************************************************************)
(* C2: calculate_total_dividend_income(portfolio, start, end) is the sum   *)
(* of total_amount over the events with start <= payment_date <= end, a    *)
(* missing end meaning today and a missing start no lower bound; an event  *)
(* dated today - 30 days is counted with start = today - 60 days and not   *)
(* with start = today - 10 days; an event dated after today is not counted *)
(* when end is omitted.                                                    *)
(***************************************************************************)
C2_RangeSum ==
    call.op = "total_income" =>
        LET start == call.args[1]
            end == IF call.args[2] = None THEN today ELSE call.args[2]
            at(d) == {i \in 1..Len(dividends) : dividends[i].payment_date = d}
            all == 1..Len(dividends)
        IN  /\ call.ret = SumFun(SnapshotTotals, InRange(start, end))
            /\ (/\ call.args[2] = None
                /\ all = at(DateMinusDays(today, 30)) \cup at(DatePlusDays(today, 1)))
                => /\ start = DateMinusDays(today, 60) =>
                        call.ret = SumFun(SnapshotTotals, at(DateMinusDays(today, 30)))
                   /\ start = DateMinusDays(today, 10) => call.ret = Zero

\* a call with an event on the start date, one on the end date and one after it
C2_Witness ==
    /\ call.op = "total_income"
    /\ call.args[1] = DateMinusDays(today, 30)
    /\ call.args[2] = None
    /\ Len(dividends) = 2
    /\ dividends[1].payment_date = DateMinusDays(today, 30)
    /\ dividends[2].payment_date = today
    /\ call.ret = DecAdd(SnapshotTotals[1], SnapshotTotals[2])
    /\ call.ret # Zero

(***************************************************************************)
(* C3: the income over [Jan 1, Dec 31] of a year is the sum over its 12    *)
(* months of the income over [first day, last day] of the month.           *)
(***************************************************************************)
C3_YearIsSumOfMonths ==
    call.op = "year_income" =>
        call.ret.year = SumFun(call.ret.months, 1..12)

\* a year with an event on Feb 29 and one on the first day of a month
C3_Witness ==
    /\ call.op = "year_income"
    /\ call.args[1] = 2024
    /\ \E i, j \in 1..Len(dividends) :
            /\ dividends[i].payment_date = Date(2024, 2, 29)
            /\ dividends[j].payment_date = Date(2024, 3, 1)
    /\ call.ret.year = Dec(2)

(***************************************************************************)
(* Holdings and schedules, for stating the yield properties.               *)
(***************************************************************************)
ScheduledTickers == {schedules[i].key : i \in 1..Len(schedules)}

HasHolding(t) == \E i \in 1..Len(stocks) : stocks[i].ticker = t

\* the holding with ticker t (the first one, should there be several)
HoldingOf(t) ==
    LET first == CHOOSE i \in 1..Len(stocks) :
                    /\ stocks[i].ticker = t
                    /\ \A j \in 1..Len(stocks) : stocks[j].ticker = t => i <= j
    IN  stocks[first]

ScheduleFor(t) == schedules[CHOOSE i \in 1..Len(schedules) : schedules[i].key = t].value

\* typical_amount x annual frequency count of the schedule of ticker t
AnnualPerShare(t) ==
    DecMul(ScheduleFor(t).typical_amount, Dec(get_annual_frequency(ScheduleFor(t))))

ExpectedAnnual ==
    [t \in ScheduledTickers |->
        IF HasHolding(t) THEN DecMul(AnnualPerShare(t), HoldingOf(t).shares)
        ELSE Zero]

HoldingValues ==
    [i \in 1..Len(stocks) |-> DecMul(stocks[i].shares, stocks[i].current_price)]

TotalValue == SumFun(HoldingValues, 1..Len(stocks))

(***************************************************************************)
(* C4: calculate_annual_dividend_income is the sum over the scheduled      *)
(* tickers of typical_amount x annual frequency count x the share count of *)
(* the holding with that ticker, 0 for a ticker without a holding,         *)
(* whatever the event log holds; 100 shares with a quarterly schedule of   *)
(* 0.24 give 96.                                                           *)
(***************************************************************************)
C4_AnnualIncome ==
    call.op = "annual_income" =>
        /\ call.ret = SumFun(ExpectedAnnual, ScheduledTickers)
        /\ (/\ Len(stocks) = 1
            /\ stocks[1].shares = Dec(100)
            /\ Len(schedules) = 1
            /\ schedules[1].key = stocks[1].ticker
            /\ schedules[1].value.frequency = "quarterly"
            /\ schedules[1].value.typical_amount = DecQ(24, 100))
            => call.ret = Dec(96)

\* the annual income of a portfolio with an event in its log, a schedule
\* with a holding and a schedule without one
C4_Witness ==
    /\ call.op = "annual_income"
    /\ Len(dividends) > 0
    /\ \E t \in ScheduledTickers : HasHolding(t) /\ HoldingOf(t).shares = Dec(100)
    /\ \E t \in ScheduledTickers : ~HasHolding(t)
    /\ call.ret # Zero

(***************************************************************************)
(* C5: calculate_dividend_yield returns annual_dividend_per_share /        *)
(* current_price x 100 for a non-zero price and 0, without raising, for a  *)
(* zero price.                                                             *)
(***************************************************************************)
C5_DividendYield ==
    call.op = "dividend_yield" =>
        LET stock == stocks[call.args[1]]
        IN  /\ call.ret.raised = ""
            /\ stock.current_price = Zero => call.ret.val = Zero
            /\ stock.current_price # Zero =>
                    DecMul(call.ret.val, stock.current_price)
                        = DecMul(call.args[2], Hundred)

\* the yield of a holding whose price is 0, asked with a non-zero dividend
C5_Witness ==
    /\ call.op = "dividend_yield"
    /\ stocks[call.args[1]].current_price = Zero
    /\ call.args[2] # Zero
    /\ call.ret = Ok(Zero)

(***************************************************************************)
(* C6: calculate_portfolio_dividend_yield returns 0, without raising, for  *)
(* a portfolio whose total value is 0, whatever its schedules; otherwise   *)
(* it returns annual income / total value x 100.                           *)
(***************************************************************************)
C6_PortfolioYield ==
    call.op = "portfolio_yield" =>
        /\ call.ret.raised = ""
        /\ TotalValue = Zero => call.ret.val = Zero
        /\ TotalValue # Zero =>
                DecMul(call.ret.val, TotalValue)
                    = DecMul(SumFun(ExpectedAnnual, ScheduledTickers), Hundred)

\* the yield of a portfolio of total value 0 whose schedules promise income
C6_Witness ==
    /\ call.op = "portfolio_yield"
    /\ Len(stocks) > 0
    /\ TotalValue = Zero
    /\ SumFun(ExpectedAnnual, ScheduledTickers) # Zero
    /\ call.ret = Ok(Zero)

(***************************************************************************)
(* C7: when every holding has a schedule and the total value is not 0, the *)
(* average of the holdings' calculate_dividend_yield, weighted by each     *)
(* holding's fraction of the total value, equals                           *)
(* calculate_portfolio_dividend_yield.                                     *)
(***************************************************************************)
WeightedYields ==
    [i \in 1..Len(stocks) |->
        DecMul(calculate_dividend_yield(stocks[i], AnnualPerShare(stocks[i].ticker)).val,
               DecDiv(HoldingValues[i], TotalValue).val)]

WeightedAverageYield == SumFun(WeightedYields, 1..Len(stocks))

\* stated for the portfolios of the data model, whose holdings are ticker-unique
C7_FormulationsAgree ==
    (/\ call.op = "portfolio_yield"
     /\ \A i, j \in 1..Len(stocks) : stocks[i].ticker = stocks[j].ticker => i = j
     /\ \A i \in 1..Len(stocks) : stocks[i].ticker \in ScheduledTickers
     /\ TotalValue # Zero)
        => call.ret = Ok(WeightedAverageYield)

(***************************************************************************)
(* Months and base income, for stating the projection properties.          *)
(***************************************************************************)
\* the last day of the month that lies k months after the current month
MonthEndAfter(k) ==
    LET index == today[1] * 12 + (today[2] - 1) + k
        year == index \div 12
        month == (index % 12) + 1
    IN  Date(year, month, DaysInMonth(year, month))

HeldScheduledTickers == {t \in ScheduledTickers : HasHolding(t)}

\* typical_amount x shares x annual frequency x 1/12 per scheduled holding
OneMonthEstimate ==
    SumFun([t \in HeldScheduledTickers |->
                DecMul(DecMul(AnnualPerShare(t), HoldingOf(t).shares), DecQ(1, 12))],
           HeldScheduledTickers)

(***************************************************************************)
(* C8: project_dividend_income(portfolio, months, g) returns exactly       *)
(* `months` pairs (none when months <= 0), the m-th dated the last day of  *)
(* the month m months after the current month, so the first is the end of  *)
(* the current month and the dates increase strictly.                      *)
(***************************************************************************)
C8_MonthEnds ==
    call.op = "project" =>
        LET n == IF call.args[1] > 0 THEN call.args[1] ELSE 0
        IN  /\ call.ret.raised = ""
            /\ Len(call.ret.val) = n
            /\ \A k \in 1..n : call.ret.val[k][1] = MonthEndAfter(k - 1)
            /\ n > 0 => /\ call.ret.val[1][1][1] = today[1]
                        /\ call.ret.val[1][1][2] = today[2]
                        /\ DateLE(today, call.ret.val[1][1])
            /\ \A k \in 1..(n - 1) :
                    DateLT(call.ret.val[k][1], call.ret.val[k + 1][1])

(***************************************************************************)
(* C9: with growth rate 0, project_dividend_income(portfolio, 12, 0) gives *)
(* 12 equal monthly values, each the sum over the scheduled tickers that   *)
(* have a holding of typical_amount x shares x annual frequency x 1/12.    *)
(***************************************************************************)
C9_ZeroGrowth ==
    (call.op = "project" /\ call.args = <<12, Zero>>) =>
        /\ call.ret.raised = ""
        /\ Len(call.ret.val) = 12
        /\ \A k \in 1..12 : call.ret.val[k][2] = RealOf(OneMonthEstimate)

\* a 12-month projection without growth of a portfolio with two scheduled
\* holdings
C9_Witness ==
    /\ call.op = "project"
    /\ call.args = <<12, Zero>>
    /\ Cardinality(HeldScheduledTickers) = 2
    /\ call.ret.raised = ""
    /\ Len(call.ret.val) = 12
    /\ call.ret.val[12][2] # RealZero

(***************************************************************************)
(* C10: the income at offset 0 is the base monthly income for every growth *)
(* rate g, and the income at offset m + 12 is the income at offset m       *)
(* multiplied by 1 + g / 100.                                              *)
(***************************************************************************)
C10_Compounding ==
    call.op = "project" =>
        LET months == call.args[1]
            annual_factor == DecAdd(One, DecDiv(call.args[2], Hundred).val)
        IN  /\ call.ret.raised = ""
            /\ months > 0 => call.ret.val[1][2] = RealOf(OneMonthEstimate)
            /\ \A k \in 1..(months - 12) :
                    call.ret.val[k + 12][2]
                        = RealMulDec(annual_factor, call.ret.val[k][2])

(***************************************************************************)
(* The growth-rate estimator: calculate_dividend_growth_rate averages the  *)
(* percentage changes between consecutive events of one ticker.            *)
(***************************************************************************)
\* a plausible slip: the events of every ticker are taken
get_dividends_for_stock_all(divs, ticker) == divs

\* Portfolio.get_dividends_for_stock: [d for d in self.dividends if d.ticker == ticker]
get_dividends_for_stock(divs, ticker) ==
    SelectSeq(divs, LAMBDA d : d.ticker = ticker)

\* sorted(dividends, key=lambda d: d.payment_date): the sort is stable, an
\* event goes behind the events of the same or an earlier date before it
RECURSIVE sorted_by_payment_date(_)
sorted_by_payment_date(divs) ==
    IF divs = <<>> THEN <<>>
    ELSE CHOOSE r \in
           {LET k == Cardinality({i \in 1..Len(sd) :
                                    DateLE(sd[i].payment_date, d.payment_date)})
            IN  SubSeq(sd, 1, k) \o <<d>> \o SubSeq(sd, k + 1, Len(sd)) :
                sd \in {sorted_by_payment_date(SubSeq(divs, 1, Len(divs) - 1))},
                d \in {divs[Len(divs)]}} : TRUE

\* the loop over range(1, len(sorted_dividends)): a pair whose earlier amount
\* is not positive adds no rate
RECURSIVE growth_loop(_, _, _)
growth_loop(sorted_dividends, i, growth_rates) ==
    IF i > Len(sorted_dividends) THEN Ok(growth_rates)
    ELSE LET prev == sorted_dividends[i - 1].amount_per_share
             cur == sorted_dividends[i].amount_per_share
             q == DecDiv(DecSub(cur, prev), prev)
         IN  IF DecLT(Zero, prev)
             THEN IF q.raised # "" THEN q
                  ELSE growth_loop(sorted_dividends, i + 1,
                                   Append(growth_rates, DecMul(q.val, Hundred)))
             ELSE growth_loop(sorted_dividends, i + 1, growth_rates)

\* sum(growth_rates)
RECURSIVE sum_rates(_, _)
sum_rates(growth_rates, i) ==
    IF i > Len(growth_rates) THEN Zero
    ELSE DecAdd(growth_rates[i], sum_rates(growth_rates, i + 1))

\* calculate_dividend_growth_rate(portfolio, ticker)
calculate_dividend_growth_rate(divs, ticker) ==
    CHOOSE r \in
      {IF Len(ds) < 2 THEN Ok(None)
       ELSE LET rates == growth_loop(sorted_by_payment_date(ds), 2, <<>>)
            IN  IF rates.raised # "" THEN rates
                ELSE IF rates.val = <<>> THEN Ok(None)
                ELSE DecDiv(sum_rates(rates.val, 1), Dec(Len(rates.val))) :
       ds \in {get_dividends_for_stock(divs, ticker)}} : TRUE

\* a call of calculate_dividend_growth_rate(portfolio, ticker)
CallGrowthRate(ticker) ==
    /\ call' = [op |-> "growth_rate", args |-> <<ticker>>,
                ret |-> calculate_dividend_growth_rate(dividends, ticker)]
    /\ UNCHANGED <<stocks, dividends, schedules, today, gui>>

(***************************************************************************)
(* The estimator's runs: payment events of ticker A with amounts 0, 1 and  *)
(* 2 on three dates, one event of ticker B, queries for A, B and a ticker  *)
(* the portfolio never saw.                                                *)
(***************************************************************************)
\* the longest log of the estimator's runs
MaxEvents == 3

GrowthDates == {Date(2024, 1, 15), Date(2024, 4, 15), Date(2024, 7, 15)}

GrowthDividends ==
    {Dividend("A", d, Dec(a), One, "paid") : d \in GrowthDates, a \in {0, 1, 2}}
        \cup {Dividend("B", Date(2024, 1, 15), One, One, "paid")}

GrowthTickers == {"A", "B", "C"}

InitGrowth ==
    /\ stocks = <<>>
    /\ dividends = <<>>
    /\ schedules = <<>>
    /\ gui = DividendTrackerApp
    /\ today = Date(2024, 12, 1)
    /\ call = NoCall

NextGrowth ==
    \/ \E d \in GrowthDividends : Len(dividends) < MaxEvents /\ add_dividend(d)
    \/ \E t \in GrowthTickers : CallGrowthRate(t)

SpecGrowth == InitGrowth /\ [][NextGrowth]_vars

\* the positions in the log of the events of ticker t
EventsOf(t) == {i \in 1..Len(dividends) : dividends[i].ticker = t}

(***************************************************************************)
(* C11: calculate_dividend_growth_rate returns None, and raises nothing,   *)
(* for every ticker with 0 or 1 events in the log, a ticker the portfolio  *)
(* never saw included; the events of other tickers do not count.           *)
(***************************************************************************)
C11_FewEvents ==
    (call.op = "growth_rate" /\ Cardinality(EventsOf(call.args[1])) <= 1)
        => call.ret = Ok(None)

\* a query for a ticker with one event while another ticker has two
C11_Witness ==
    /\ call.op = "growth_rate"
    /\ Cardinality(EventsOf(call.args[1])) = 1
    /\ \E t \in GrowthTickers : Cardinality(EventsOf(t)) >= 2
    /\ call.ret = Ok(None)

\* the events of ticker t on its earliest payment date
EarliestEventsOf(t) ==
    {i \in EventsOf(t) :
        \A j \in EventsOf(t) : DateLE(dividends[i].payment_date,
                                      dividends[j].payment_date)}

(***************************************************************************)
(* C12: calculate_dividend_growth_rate never raises, and returns None      *)
(* whenever the chronologically first event of the ticker has amount 0,    *)
(* however many later events have positive amounts.                        *)
(***************************************************************************)
C12_ZeroFirstAmount ==
    call.op = "growth_rate" =>
        /\ call.ret.raised = ""
        /\ (/\ EventsOf(call.args[1]) # {}
            /\ \A i \in EarliestEventsOf(call.args[1]) :
                    dividends[i].amount_per_share = Zero)
            => call.ret = Ok(None)

(***************************************************************************)
(* The summary builder: generate_dividend_summary composes the totals and  *)
(* one entry per holding, read from the attributes of Stock.               *)
(***************************************************************************)
\* Stock.total_cost: shares * purchase_price
total_cost(stock) == DecMul(stock.shares, stock.purchase_price)

\* Stock.unrealized_gain: total_value - total_cost
unrealized_gain(stock) == DecSub(total_value(stock), total_cost(stock))

\* stock.<attr>: the dataclass fields, the attributes assigned to the object
\* later and the properties Stock defines; any other name raises
\* AttributeError
stock_getattr(stock, attr) ==
    CASE attr \in DOMAIN stock -> Ok(stock[attr])
      [] attr = "currency" -> Ok("USD")
      [] attr = "total_value" -> Ok(total_value(stock))
      [] attr = "total_cost" -> Ok(total_cost(stock))
      [] attr = "unrealized_gain" -> Ok(unrealized_gain(stock))
      [] OTHER -> Raise("AttributeError")

\* format_inr: the rupee sign and the amount with two decimals, rounded half
\* to even; the text is kept as the number of hundredths it shows
format_inr(amount) ==
    LET n == amount[1] * 100
        d == amount[2]
        q == n \div d
        r == n % d
        cents == IF 2 * r > d THEN q + 1
                 ELSE IF 2 * r < d THEN q
                 ELSE IF q % 2 = 0 THEN q ELSE q + 1
    IN  [symbol |-> "rupee", hundredths |-> cents]

\* the entry of one holding in summary['stocks']
stock_info_of(stock, scheds) ==
    LET schedule == schedule_of(scheds, stock.ticker)
        annual_dividend_per_share ==
            DecMul(schedule.typical_amount, Dec(get_annual_frequency(schedule)))
        stock_yield == IF schedule # None
                       THEN calculate_dividend_yield(stock, annual_dividend_per_share)
                       ELSE Zero
        annual_income == IF schedule # None
                         THEN DecMul(annual_dividend_per_share, stock.shares)
                         ELSE Zero
        unrealized_gain_percentage == stock_getattr(stock, "unrealized_gain_percentage")
    IN  IF unrealized_gain_percentage.raised # "" THEN unrealized_gain_percentage
        ELSE Ok([ticker |-> stock.ticker,
                 name |-> stock.name,
                 shares |-> stock.shares,
                 current_price |-> stock.current_price,
                 current_price_formatted |-> format_inr(stock.current_price),
                 total_value |-> total_value(stock),
                 total_value_formatted |-> format_inr(total_value(stock)),
                 annual_dividend_income |-> annual_income,
                 annual_dividend_income_formatted |-> format_inr(annual_income),
                 dividend_yield |-> stock_yield,
                 unrealized_gain |-> unrealized_gain(stock),
                 unrealized_gain_formatted |-> format_inr(unrealized_gain(stock)),
                 unrealized_gain_percentage |-> unrealized_gain_percentage.val])

\* the loop over portfolio.stocks filling summary['stocks']
RECURSIVE summary_loop(_, _, _, _)
summary_loop(stks, scheds, i, infos) ==
    IF i > Len(stks) THEN Ok(infos)
    ELSE LET stock_info == stock_info_of(stks[i], scheds)
         IN  IF stock_info.raised # "" THEN stock_info
             ELSE summary_loop(stks, scheds, i + 1, Append(infos, stock_info.val))

\* generate_dividend_summary(portfolio), with date.today() = td
generate_dividend_summary(stks, divs, scheds, td) ==
    LET year_start == Date(td[1], 1, 1)
        infos == summary_loop(stks, scheds, 1, <<>>)
    IN  IF infos.raised # "" THEN infos
        ELSE Ok([total_portfolio_value |-> total_portfolio_value(stks),
                 total_portfolio_value_formatted |->
                     format_inr(total_portfolio_value(stks)),
                 annual_dividend_income |-> calculate_annual_dividend_income(stks, scheds),
                 annual_dividend_income_formatted |->
                     format_inr(calculate_annual_dividend_income(stks, scheds)),
                 ytd_dividend_income |->
                     calculate_total_dividend_income(divs, year_start, td),
                 ytd_dividend_income_formatted |->
                     format_inr(calculate_total_dividend_income(divs, year_start, td)),
                 portfolio_yield |-> calculate_portfolio_dividend_yield(stks, scheds),
                 number_of_stocks |-> Len(stks),
                 total_dividends_received |-> Len(divs),
                 currency |-> "INR",
                 stocks |-> infos.val])

\* a call of generate_dividend_summary(portfolio)
CallSummary ==
    /\ call' = [op |-> "summary", args |-> None,
                ret |-> generate_dividend_summary(stocks, dividends, schedules, today)]
    /\ UNCHANGED <<stocks, dividends, schedules, today, gui>>

\* a read of stocks[i].unrealized_gain_percentage
CallUnrealizedGainPercentage(i) ==
    /\ i \in 1..Len(stocks)
    /\ call' = [op |-> "unrealized_gain_percentage", args |-> <<i>>,
                ret |-> stock_getattr(stocks[i], "unrealized_gain_percentage")]
    /\ UNCHANGED <<stocks, dividends, schedules, today, gui>>

(***************************************************************************)
(* The summary's runs: holdings with and without a cost basis, one of them *)
(* scheduled, events before and within the current year.                   *)
(***************************************************************************)
SummaryStocks ==
    {Stock("A", "a", Dec(10), Dec(p), Dec(150)) : p \in {0, 100}}
        \cup {Stock("B", "b", Dec(5), Dec(80), Dec(60))}
SummarySchedules == {DividendSchedule("A", "quarterly", DecQ(24, 100), None)}
SummaryDividends ==
    {Dividend("A", d, One, Dec(10), "paid") : d \in {Date(2023, 12, 31), Date(2024, 3, 15)}}

NextSummary ==
    \/ \E s \in SummaryStocks : add_stock(s)
    \/ \E s \in SummarySchedules : add_schedule(s)
    \/ \E d \in SummaryDividends : Len(dividends) < MaxDividends /\ add_dividend(d)
    \/ CallSummary
    \/ \E i \in 1..MaxStocks : CallUnrealizedGainPercentage(i)

SpecSummary == InitYield /\ [][NextSummary]_vars

(***************************************************************************)
(* C13: generate_dividend_summary returns a report for every portfolio,    *)
(* empty or not, and raises nothing: total value, schedule-derived annual  *)
(* income, income of the events from Jan 1 of the current year to today,   *)
(* portfolio yield, holding count, event count, currency tag, and one      *)
(* entry per holding in holding order with ticker, name, shares, price,    *)
(* value, annual income, yield, unrealized gain and its percentage.        *)
(***************************************************************************)
C13_SummaryReport ==
    call.op = "summary" =>
        /\ call.ret.raised = ""
        /\ call.ret.val.total_portfolio_value = TotalValue
        /\ call.ret.val.annual_dividend_income = SumFun(ExpectedAnnual, ScheduledTickers)
        /\ call.ret.val.ytd_dividend_income
                = SumFun(SnapshotTotals, InRange(Date(today[1], 1, 1), today))
        /\ call.ret.val.portfolio_yield
                = calculate_portfolio_dividend_yield(stocks, schedules)
        /\ call.ret.val.number_of_stocks = Len(stocks)
        /\ call.ret.val.total_dividends_received = Len(dividends)
        /\ call.ret.val.currency = "INR"
        /\ Len(call.ret.val.stocks) = Len(stocks)
        /\ \A i \in 1..Len(stocks) :
              LET entry == call.ret.val.stocks[i]
              IN  /\ {"annual_dividend_income", "dividend_yield",
                      "unrealized_gain_percentage"} \subseteq DOMAIN entry
                  /\ entry.ticker = stocks[i].ticker
                  /\ entry.name = stocks[i].name
                  /\ entry.shares = stocks[i].shares
                  /\ entry.current_price = stocks[i].current_price
                  /\ entry.total_value
                        = DecMul(stocks[i].shares, stocks[i].current_price)
                  /\ entry.unrealized_gain
                        = DecSub(DecMul(stocks[i].shares, stocks[i].current_price),
                                 DecMul(stocks[i].shares, stocks[i].purchase_price))

(***************************************************************************)
(* C14: every holding exposes an unrealized gain percentage: unrealized    *)
(* gain / cost basis x 100, and 0 when the cost basis shares x purchase    *)
(* price is 0.                                                             *)
(***************************************************************************)
C14_GainPercentage ==
    call.op = "unrealized_gain_percentage" =>
        LET stock == stocks[call.args[1]]
            cost == DecMul(stock.shares, stock.purchase_price)
            gain == DecSub(DecMul(stock.shares, stock.current_price), cost)
        IN  /\ call.ret.raised = ""
            /\ cost = Zero => call.ret.val = Zero
            /\ cost # Zero => DecMul(call.ret.val, cost) = DecMul(gain, Hundred)

(***************************************************************************)
(* C15: the holdings are ticker-unique after any sequence of add_stock     *)
(* calls, a sequence that uses a ticker again included, so that get_stock  *)
(* finds the only holding of a ticker.                                     *)
(***************************************************************************)
C15_TickerUnique ==
    \A i, j \in 1..Len(stocks) : stocks[i].ticker = stocks[j].ticker => i = j

\* the schedule stored under key k
StoredUnder(scheds, k) ==
    {scheds[i].value : i \in {j \in 1..Len(scheds) : scheds[j].key = k}}

(***************************************************************************)
(* C16: the schedule map holds at most one schedule per ticker. After      *)
(* every add_schedule the map holds, for the ticker of the schedule added, *)
(* that schedule only; every key is the ticker of the schedule stored      *)
(* under it; the schedules of the other tickers are as they were.          *)
(***************************************************************************)
C16_OneSchedulePerTicker ==
    [][/\ \A i, j \in 1..Len(schedules') :
              schedules'[i].key = schedules'[j].key => i = j
       /\ \A i \in 1..Len(schedules') :
              schedules'[i].key = schedules'[i].value.ticker
       /\ call'.op = "add_schedule" =>
              /\ StoredUnder(schedules', call'.args[1].ticker) = {call'.args[1]}
              /\ \A t \in Tickers \ {call'.args[1].ticker} :
                    StoredUnder(schedules', t) = StoredUnder(schedules, t)]_vars

\* the first ticker's schedule was added again while a second ticker has one
C16_Witness ==
    /\ call.op = "add_schedule"
    /\ Len(schedules) = 2
    /\ schedules[1].value = call.args[1]
    /\ schedules[2].key # schedules[1].key

(***************************************************************************)
(* The frequency strings: the four known words in several spellings and    *)
(* strings that are none of them.                                          *)
(***************************************************************************)
MonthlySpellings == {"monthly", "Monthly", "MONTHLY"}
QuarterlySpellings == {"quarterly", "Quarterly", "QUARTERLY"}
SemiAnnualSpellings == {"semi-annual", "Semi-Annual", "SEMI-ANNUAL"}
AnnualSpellings == {"annual", "Annual", "ANNUAL"}
OtherFrequencies == {"", "weekly", "Weekly", "semiannual", "yearly", " quarterly"}

FrequencySchedules ==
    {DividendSchedule(t, f, One, None) :
        t \in Tickers,
        f \in MonthlySpellings \cup QuarterlySpellings \cup SemiAnnualSpellings
                \cup AnnualSpellings \cup OtherFrequencies}

\* a call of schedule.get_annual_frequency() on the i-th schedule of the map
CallAnnualFrequency(i) ==
    /\ i \in 1..Len(schedules)
    /\ call' = [op |-> "get_annual_frequency", args |-> <<i>>,
                ret |-> get_annual_frequency(schedules[i].value)]
    /\ UNCHANGED <<stocks, dividends, schedules, today, gui>>

NextFrequency ==
    \/ \E s \in FrequencySchedules : add_schedule(s)
    \/ \E i \in 1..MaxSchedules : CallAnnualFrequency(i)

SpecFrequency == InitYield /\ [][NextFrequency]_vars

(***************************************************************************)
(* C17: get_annual_frequency gives 12, 4, 2, 1 for monthly, quarterly,     *)
(* semi-annual, annual in any letter case and 4 for every other string;    *)
(* the result is always one of 1, 2, 4, 12.                                *)
(***************************************************************************)
C17_AnnualFrequency ==
    call.op = "get_annual_frequency" =>
        LET f == schedules[call.args[1]].value.frequency
        IN  /\ call.ret \in {1, 2, 4, 12}
            /\ f \in MonthlySpellings => call.ret = 12
            /\ f \in QuarterlySpellings => call.ret = 4
            /\ f \in SemiAnnualSpellings => call.ret = 2
            /\ f \in AnnualSpellings => call.ret = 1
            /\ f \in OtherFrequencies => call.ret = 4

\* a frequency spelled in capitals was read
C17_Witness ==
    /\ call.op = "get_annual_frequency"
    /\ schedules[call.args[1]].value.frequency = "SEMI-ANNUAL"
    /\ call.ret = 2

(***************************************************************************)
(* The desktop window (gui.py): its holding rows and dividend rows are     *)
(* filled from the text of the form fields.                                *)
(***************************************************************************)
\* str.strip on the field texts in use
Strip(str) ==
    CASE str = " a " -> "a"
      [] str = "  " -> ""
      [] OTHER -> str

\* str.upper on the symbols in use
Upper(str) ==
    CASE str = "a" -> "A"
      [] str = "b" -> "B"
      [] OTHER -> str

\* float(text) on the field texts in use: the number, ValueError for a text
\* that is no number (the empty text included), TypeError for None
float(text) ==
    IF text \notin STRING THEN Raise("TypeError") ELSE
    CASE text = "0" -> Ok(Dec(0))
      [] text = "2" -> Ok(Dec(2))
      [] text = "3" -> Ok(Dec(3))
      [] text = "-1" -> Ok(Dec(-1))
      [] text = "2.5" -> Ok(DecQ(5, 2))
      [] text = "10" -> Ok(Dec(10))
      [] text = "20" -> Ok(Dec(20))
      [] OTHER -> Raise("ValueError")

\* int(x) of a float: the fraction is cut off, towards zero
int(x) ==
    IF x[1] >= 0 THEN x[1] \div x[2] ELSE -((-x[1]) \div x[2])

\* datetime.strptime(text, "%Y-%m-%d") on the field texts in use
strptime(text) ==
    CASE text = "2024-01-10" -> Ok(Date(2024, 1, 10))
      [] text = "2024-01-15" -> Ok(Date(2024, 1, 15))
      [] text = "2024-02-10" -> Ok(Date(2024, 2, 10))
      [] text = "2024-06-30" -> Ok(Date(2024, 6, 30))
      [] text = "2024-07-15" -> Ok(Date(2024, 7, 15))
      [] OTHER -> Raise("ValueError")

\* f"{x:.2f}": the text of x with two decimals, kept as its hundredths
format_2f(x) == [hundredths |-> format_inr(x).hundredths]

\* _refresh_portfolio_table: the table is emptied and gets one line per row
portfolio_table(rows) ==
    [i \in 1..Len(rows) |->
        <<rows[i].symbol, rows[i].name, rows[i].qty, format_2f(rows[i].avg_price),
          format_2f(rows[i].fy_div), rows[i].freq, rows[i].last_div, rows[i].next_div>>]

\* _refresh_div_table
div_table(rows) ==
    [i \in 1..Len(rows) |->
        <<rows[i].symbol, rows[i].ex_date, rows[i].pay_date, format_2f(rows[i].amount)>>]

\* a plausible slip: the two date fields are stored without being parsed
holding_payload_unchecked_dates(form) ==
    LET symbol == Upper(Strip(form.Symbol))
        name == IF Strip(form.Name) # "" THEN Strip(form.Name) ELSE symbol
        qty == float(form.Qty)
        avg_price == float(form.AvgPrice)
        fy_div == IF form.FyDiv # "" THEN float(form.FyDiv) ELSE Ok(Dec(0))
        freq == IF form.Freq # "" THEN float(form.Freq) ELSE Ok(Dec(1))
    IN  IF symbol = "" THEN Raise("ValueError")
        ELSE IF qty.raised # "" THEN qty
        ELSE IF avg_price.raised # "" THEN avg_price
        ELSE IF fy_div.raised # "" THEN fy_div
        ELSE IF freq.raised # "" THEN freq
        ELSE Ok([symbol |-> symbol, name |-> name, qty |-> int(qty.val),
                 avg_price |-> avg_price.val, fy_div |-> fy_div.val,
                 freq |-> int(freq.val), last_div |-> Strip(form.LastDiv),
                 next_div |-> Strip(form.NextDiv)])

\* the try block of add_update_holding: the fields are read in their order
\* and the first one that fails raises; the result is the row to store
holding_payload(form) ==
    LET symbol == Upper(Strip(form.Symbol))
        name == IF Strip(form.Name) # "" THEN Strip(form.Name) ELSE symbol
        qty == float(form.Qty)
        avg_price == float(form.AvgPrice)
        fy_div == IF form.FyDiv # "" THEN float(form.FyDiv) ELSE Ok(Dec(0))
        freq == IF form.Freq # "" THEN float(form.Freq) ELSE Ok(Dec(1))
        last_div == Strip(form.LastDiv)
        next_div == Strip(form.NextDiv)
    IN  IF symbol = "" THEN Raise("ValueError")
        ELSE IF qty.raised # "" THEN qty
        ELSE IF avg_price.raised # "" THEN avg_price
        ELSE IF fy_div.raised # "" THEN fy_div
        ELSE IF freq.raised # "" THEN freq
        ELSE IF last_div # "" /\ strptime(last_div).raised # "" THEN strptime(last_div)
        ELSE IF next_div # "" /\ strptime(next_div).raised # "" THEN strptime(next_div)
        ELSE Ok([symbol |-> symbol, name |-> name, qty |-> int(qty.val),
                 avg_price |-> avg_price.val, fy_div |-> fy_div.val,
                 freq |-> int(freq.val), last_div |-> last_div,
                 next_div |-> next_div])

\* a plausible slip: the rows are not searched, no row counts as existing
existing_never(rows, symbol) == 0

\* next((x for x in self.portfolio if x['symbol'] == symbol), None): the
\* position of the first row of the symbol, 0 for None
existing(rows, symbol) ==
    IF \E i \in 1..Len(rows) : rows[i].symbol = symbol
    THEN CHOOSE i \in 1..Len(rows) :
            /\ rows[i].symbol = symbol
            /\ \A j \in 1..(i - 1) : rows[j].symbol # symbol
    ELSE 0

\* DividendTrackerApp.add_update_holding: an error box and nothing else when
\* the try block raises; otherwise the first row of the symbol is updated,
\* or the row is appended, and the table is refreshed
add_update_holding(form) ==
    LET payload == holding_payload(form)
        rows == IF existing(gui.portfolio, payload.val.symbol) # 0
                THEN [gui.portfolio EXCEPT
                        ![existing(gui.portfolio, payload.val.symbol)] = payload.val]
                ELSE Append(gui.portfolio, payload.val)
    IN  /\ IF payload.raised # ""
           THEN /\ gui' = gui
                /\ call' = [op |-> "add_update_holding", args |-> <<form>>,
                            ret |-> "showerror"]
           ELSE /\ gui' = [gui EXCEPT !.portfolio = rows,
                                      !.portfolio_tv = portfolio_table(rows)]
                /\ call' = [op |-> "add_update_holding", args |-> <<form>>,
                            ret |-> None]
        /\ UNCHANGED <<stocks, dividends, schedules, today>>

\* the try block of DividendTrackerApp.add_dividend
dividend_item(form) ==
    LET symbol == Upper(Strip(form.Symbol))
        ex_date == Strip(form.ExDate)
        pay_date == Strip(form.PayDate)
        amount == float(form.Amount)
    IN  IF amount.raised # "" THEN amount
        ELSE IF strptime(ex_date).raised # "" THEN strptime(ex_date)
        ELSE IF strptime(pay_date).raised # "" THEN strptime(pay_date)
        ELSE Ok([symbol |-> symbol, ex_date |-> ex_date, pay_date |-> pay_date,
                 amount |-> amount.val])

\* DividendTrackerApp.add_dividend
gui_add_dividend(form) ==
    LET item == dividend_item(form)
    IN  /\ IF item.raised # ""
           THEN /\ gui' = gui
                /\ call' = [op |-> "gui_add_dividend", args |-> <<form>>,
                            ret |-> "showerror"]
           ELSE /\ gui' = [gui EXCEPT !.dividends = Append(gui.dividends, item.val),
                                      !.div_tv = div_table(Append(gui.dividends, item.val))]
                /\ call' = [op |-> "gui_add_dividend", args |-> <<form>>,
                            ret |-> None]
        /\ UNCHANGED <<stocks, dividends, schedules, today>>

(***************************************************************************)
(* The window's runs: forms that are accepted, for two symbols and with a  *)
(* positive and a negative quantity, and the same forms with one field     *)
(* made invalid.                                                           *)
(***************************************************************************)
HoldingForm(symbol, name, qty) ==
    [Symbol |-> symbol, Name |-> name, Qty |-> qty, AvgPrice |-> "10",
     FyDiv |-> "", Freq |-> "", LastDiv |-> "", NextDiv |-> "2024-06-30"]

ValidHoldingForms ==
    {HoldingForm(s, n, q) : s \in {" a ", "B"}, n \in {"", "Acme"}, q \in {"2", "-1"}}

UnparseableNumbers == {"abc"}
MalformedDates == {"junk", "2024-13-01"}

InvalidHoldingForms ==
    UNION {{[f EXCEPT !.Symbol = "  "]}
            \cup {[f EXCEPT !.Qty = t] : t \in UnparseableNumbers \cup {""}}
            \cup {[f EXCEPT !.AvgPrice = t] : t \in UnparseableNumbers \cup {""}}
            \cup {[f EXCEPT !.FyDiv = t] : t \in UnparseableNumbers}
            \cup {[f EXCEPT !.Freq = t] : t \in UnparseableNumbers}
            \cup {[f EXCEPT !.LastDiv = t] : t \in MalformedDates}
            \cup {[f EXCEPT !.NextDiv = t] : t \in MalformedDates} :
           f \in {HoldingForm(s, "Acme", "3") : s \in {" a ", "B"}}}

ValidDividendForms ==
    {[Symbol |-> " a ", ExDate |-> "2024-06-30", PayDate |-> "2024-07-15",
      Amount |-> "2.5"]}

InvalidDividendForms ==
    UNION {{[f EXCEPT !.Amount = t] : t \in UnparseableNumbers \cup {""}}
            \cup {[f EXCEPT !.ExDate = t] : t \in MalformedDates \cup {""}}
            \cup {[f EXCEPT !.PayDate = t] : t \in MalformedDates \cup {""}} :
           f \in ValidDividendForms}

NextGui ==
    \/ \E f \in ValidHoldingForms \cup InvalidHoldingForms : add_update_holding(f)
    \/ \E f \in ValidDividendForms \cup InvalidDividendForms :
            Len(gui.dividends) < MaxDividends /\ gui_add_dividend(f)

SpecGui == InitYield /\ [][NextGui]_vars

(***************************************************************************)
(* C18: invalid input in the window changes nothing. add_update_holding    *)
(* with an empty symbol, an unparseable quantity, price, dividend or       *)
(* frequency or a malformed date, and add_dividend with an unparseable     *)
(* amount or a malformed date, report an error and leave the holding rows  *)
(* and the dividend rows exactly as they were.                             *)
(***************************************************************************)
C18_InvalidInputNoMutation ==
    [][(\/ /\ call'.op = "add_update_holding"
           /\ call'.args[1] \in InvalidHoldingForms
        \/ /\ call'.op = "gui_add_dividend"
           /\ call'.args[1] \in InvalidDividendForms)
       => /\ call'.ret = "showerror"
          /\ gui'.portfolio = gui.portfolio
          /\ gui'.dividends = gui.dividends]_vars

\* a form with a malformed date was sent for a symbol that has a row with
\* another quantity, while a dividend row exists
C18_Witness ==
    /\ call.op = "add_update_holding"
    /\ call.args[1] \in InvalidHoldingForms
    /\ call.args[1].NextDiv \in MalformedDates
    /\ call.ret = "showerror"
    /\ \E i \in 1..Len(gui.portfolio) :
            /\ gui.portfolio[i].symbol = Upper(Strip(call.args[1].Symbol))
            /\ gui.portfolio[i].qty # 3
    /\ gui.dividends # <<>>

(***************************************************************************)
(* The web shell (app.py): edit_stock writes the fields of a posted form   *)
(* into the holding that Portfolio.get_stock finds.                        *)
(***************************************************************************)
\* obj.<attr> = v on a Python object, for an attribute it has or has not yet
SetAttr(obj, attr, v) ==
    [f \in DOMAIN obj \cup {attr} |-> IF f = attr THEN v ELSE obj[f]]

\* request.form.get(key, default): the form is the record of the posted fields
form_get(form, key, default) ==
    IF key \in DOMAIN form THEN form[key] ELSE default

\* the try block of edit_stock on the holding found: the assignments happen
\* one after the other, and a float() that raises leaves the earlier ones
\* done. The floats are kept as exact numbers, like the Decimals.
edit_fields(stock, form) ==
    LET s1 == SetAttr(stock, "name", form_get(form, "name", None))
        shares == float(form_get(form, "shares", None))
        s2 == SetAttr(s1, "shares", shares.val)
        current_price == float(form_get(form, "current_price", None))
        s3 == SetAttr(s2, "current_price", current_price.val)
        dividend_amount == IF "dividend_amount" \in DOMAIN form
                           THEN float(form.dividend_amount) ELSE Ok(Dec(0))
        s4 == SetAttr(s3, "dividend_amount", dividend_amount.val)
        s5 == SetAttr(s4, "dividend_frequency",
                      form_get(form, "dividend_frequency", "quarterly"))
    IN  IF shares.raised # "" THEN [raised |-> shares.raised, val |-> s1]
        ELSE IF current_price.raised # ""
             THEN [raised |-> current_price.raised, val |-> s2]
        ELSE IF dividend_amount.raised # ""
             THEN [raised |-> dividend_amount.raised, val |-> s3]
        ELSE Ok(s5)

\* a POST to /stock/<symbol>/edit
edit_stock(symbol, form) ==
    IF get_stock(stocks, symbol) = None
    THEN /\ call' = [op |-> "edit_stock", args |-> <<symbol, form>>,
                     ret |-> "not found"]
         /\ UNCHANGED <<stocks, dividends, schedules, today, gui>>
    ELSE LET stock == get_stock(stocks, symbol)
             i == CHOOSE i \in 1..Len(stocks) :
                     /\ stocks[i] = stock
                     /\ \A j \in 1..(i - 1) : stocks[j] # stock
             edited == edit_fields(stock, form)
         IN  /\ stocks' = [stocks EXCEPT ![i] = edited.val]
             /\ call' = [op |-> "edit_stock", args |-> <<symbol, form>>,
                         ret |-> IF edited.raised # "" THEN "error" ELSE "success"]
             /\ UNCHANGED <<dividends, schedules, today, gui>>

\* a call of portfolio.get_stock(ticker)
CallGetStock(ticker) ==
    /\ call' = [op |-> "get_stock", args |-> <<ticker>>,
                ret |-> get_stock(stocks, ticker)]
    /\ UNCHANGED <<stocks, dividends, schedules, today, gui>>

\* the names a Portfolio object answers to: its fields, methods and property
PortfolioAttributes ==
    {"name", "stocks", "dividends", "schedules", "add_stock", "add_dividend",
     "add_schedule", "get_stock", "get_dividends_for_stock", "total_portfolio_value"}

\* GET /stock/<symbol>: a flashed error and a redirect for a ticker without a
\* holding; otherwise the page is built from stock.calculate_annual_dividend()
\* and the rest, and an exception on the way is a server error
stock_detail(symbol) ==
    LET stock == get_stock(stocks, symbol)
    IN  /\ call' = [op |-> "stock_detail", args |-> <<symbol>>,
                    ret |-> IF stock = None THEN "not found"
                            ELSE IF stock_getattr(stock, "calculate_annual_dividend").raised # ""
                                 THEN "500"
                            ELSE "200"]
        /\ UNCHANGED <<stocks, dividends, schedules, today, gui>>

\* GET /api/stock/<symbol>: 404 with an error body for a ticker without a
\* holding; otherwise the body is built from stock.symbol and the rest
api_stock_detail(symbol) ==
    LET stock == get_stock(stocks, symbol)
    IN  /\ call' = [op |-> "api_stock_detail", args |-> <<symbol>>,
                    ret |-> IF stock = None THEN "404"
                            ELSE IF \E a \in {"symbol", "name", "shares", "current_price",
                                               "dividend_amount", "dividend_frequency",
                                               "calculate_annual_dividend"} :
                                        stock_getattr(stock, a).raised # ""
                                 THEN "500"
                            ELSE "200"]
        /\ UNCHANGED <<stocks, dividends, schedules, today, gui>>

\* POST /stock/<symbol>/delete: portfolio.remove_stock(symbol) inside a try
\* block; Portfolio has no remove_stock, the AttributeError is flashed
delete_stock(symbol) ==
    /\ call' = [op |-> "delete_stock", args |-> <<symbol>>,
                ret |-> IF "remove_stock" \in PortfolioAttributes
                        THEN "success" ELSE "error"]
    /\ UNCHANGED <<stocks, dividends, schedules, today, gui>>

(***************************************************************************)
(* The web shell's runs: holdings with a positive and a negative share     *)
(* count, edit forms with texts that are numbers and texts that are not.   *)
(***************************************************************************)
WebStocks == {Stock("A", "a", Dec(n), One, Dec(10)) : n \in {2, -1}}
WebSymbols == {"A", "Z"}
EditForms ==
    {[name |-> "New", shares |-> s, current_price |-> p, dividend_amount |-> a,
      dividend_frequency |-> "monthly"] :
        s \in {"abc", "3", "-1"}, p \in {"x", "20"}, a \in {"abc", "2.5"}}
    \cup {[name |-> "New", shares |-> s, current_price |-> p] :
            s \in {"abc", "3", "-1"}, p \in {"x", "20"}}

NextWeb ==
    \/ \E s \in WebStocks : add_stock(s)
    \/ \E t \in WebSymbols, f \in EditForms : edit_stock(t, f)
    \/ \E t \in WebSymbols : CallGetStock(t)
    \/ \E t \in WebSymbols : stock_detail(t)
    \/ \E t \in WebSymbols : api_stock_detail(t)
    \/ \E t \in WebSymbols : delete_stock(t)

SpecWeb == InitYield /\ [][NextWeb]_vars

(***************************************************************************)
(* C19: a holding with a negative share count never enters the portfolio:  *)
(* every add or update with negative shares is rejected, so that shares    *)
(* >= 0 holds for every holding, of the portfolio and of the window, in    *)
(* every reachable state.                                                  *)
(***************************************************************************)
C19_SharesNonNegative ==
    /\ \A i \in 1..Len(stocks) : ~DecLT(stocks[i].shares, Zero)
    /\ \A i \in 1..Len(gui.portfolio) : gui.portfolio[i].qty >= 0

\* the posted form has a text under key that float() cannot read
UnparseableIn(form, key) == key \in DOMAIN form /\ form[key] \in {"abc", "x"}

(***************************************************************************)
(* C20: the web edit applies no partial mutation: an edit_stock POST for   *)
(* an existing holding with an unparseable shares, current price or        *)
(* dividend amount reports an error and leaves every field of the holding  *)
(* with the value it had before the request.                               *)
(***************************************************************************)
C20_EditNoPartialMutation ==
    [][(/\ call'.op = "edit_stock"
        /\ get_stock(stocks, call'.args[1]) # None
        /\ \E key \in {"shares", "current_price", "dividend_amount"} :
                UnparseableIn(call'.args[2], key))
       => /\ call'.ret = "error"
          /\ stocks' = stocks]_vars

(***************************************************************************)
(* C21: an unknown ticker is always reported. get_stock returns None       *)
(* exactly when no holding has the ticker; stock_detail, api_stock_detail, *)
(* edit_stock and delete_stock answer a ticker without a holding with a    *)
(* not-found or error outcome and leave the portfolio as it was.           *)
(***************************************************************************)
C21_UnknownTickerReported ==
    [][/\ call'.op = "get_stock" =>
              (call'.ret = None <=> ~HasHolding(call'.args[1]))
       /\ (/\ call'.op \in {"stock_detail", "api_stock_detail", "edit_stock",
                            "delete_stock"}
           /\ ~HasHolding(call'.args[1]))
              => /\ call'.ret \in {"not found", "404", "error"}
                 /\ stocks' = stocks]_vars

\* an edit was posted for a ticker without a holding while the portfolio has
\* a holding
C21_Witness ==
    /\ call.op = "edit_stock"
    /\ ~HasHolding(call.args[1])
    /\ stocks # <<>>
    /\ call.ret = "not found"

(***************************************************************************)
(* The upcoming-dividends query of the web shell. Its handler reads        *)
(* stock.symbol, stock.dividend_amount and stock.dividend_schedule; the    *)
(* holdings get them from generate_sample_data, which the sources import   *)
(* but do not contain. Dates and the clock are taken to the day.           *)
(***************************************************************************)
\* the seeding of the i-th holding with the attributes the web handlers read
seed_holding(i, dividend_schedule) ==
    /\ i \in 1..Len(stocks)
    /\ stocks' = [stocks EXCEPT ![i] =
                    SetAttr(SetAttr(SetAttr(@, "symbol", @.ticker),
                                    "dividend_amount", One),
                            "dividend_schedule", dividend_schedule)]
    /\ call' = [op |-> "seed_holding", args |-> <<i, dividend_schedule>>, ret |-> None]
    /\ UNCHANGED <<dividends, schedules, today, gui>>

\* date.isoformat(): the text YYYY-MM-DD, kept as the date it spells
isoformat(d) == [isoformat |-> d]

\* the loop of api_upcoming_dividends over portfolio.stocks; reading an
\* attribute a holding does not have raises AttributeError
RECURSIVE upcoming_loop(_, _, _, _)
upcoming_loop(stks, target_date, i, upcoming) ==
    IF i > Len(stks) THEN Ok(upcoming)
    ELSE LET stock == stks[i]
             dividend_schedule == stock_getattr(stock, "dividend_schedule")
             next_payment == dividend_schedule.val.next_payment_date
             symbol == stock_getattr(stock, "symbol")
             dividend_amount == stock_getattr(stock, "dividend_amount")
         IN  IF dividend_schedule.raised # "" THEN dividend_schedule
             ELSE IF dividend_schedule.val = None
                  THEN upcoming_loop(stks, target_date, i + 1, upcoming)
             ELSE IF next_payment # None /\ DateLE(next_payment, target_date)
                  THEN IF symbol.raised # "" THEN symbol
                       ELSE IF dividend_amount.raised # "" THEN dividend_amount
                       ELSE upcoming_loop(stks, target_date, i + 1,
                                Append(upcoming,
                                       [symbol |-> symbol.val,
                                        name |-> stock.name,
                                        date |-> isoformat(next_payment),
                                        amount |-> DecMul(dividend_amount.val,
                                                          stock.shares)]))
             ELSE upcoming_loop(stks, target_date, i + 1, upcoming)

\* GET /api/dividends/upcoming?days=<days>
api_upcoming_dividends(days) ==
    /\ call' = [op |-> "api_upcoming_dividends", args |-> <<days>>,
                ret |-> upcoming_loop(stocks, DatePlusDays(today, days), 1, <<>>)]
    /\ UNCHANGED <<stocks, dividends, schedules, today, gui>>

(***************************************************************************)
(* The query's runs: holdings without the web attributes, without a        *)
(* schedule, without a next payment date, and with one before, at, within, *)
(* at the end of and behind a window of 30 days.                           *)
(***************************************************************************)
UpcomingStocks == {Stock(t, "n", Dec(10), One, One) : t \in Tickers}
UpcomingSchedules ==
    {DividendSchedule("A", "quarterly", One, d) :
        d \in {None, DateMinusDays(Date(2024, 3, 15), 30), Date(2024, 3, 15),
               Date(2024, 4, 14), Date(2024, 4, 15)}}
UpcomingDays == {7, 30}

NextUpcoming ==
    \/ \E s \in UpcomingStocks : add_stock(s)
    \/ \E i \in 1..MaxStocks : seed_holding(i, None)
    \/ \E i \in 1..MaxStocks, s \in UpcomingSchedules : seed_holding(i, s)
    \/ \E n \in UpcomingDays : api_upcoming_dividends(n)

SpecUpcoming == InitYield /\ [][NextUpcoming]_vars

\* the holdings that have a schedule with a next payment date in [from, to]
DueWithin(from, to) ==
    {i \in 1..Len(stocks) :
        /\ "dividend_schedule" \in DOMAIN stocks[i]
        /\ stocks[i].dividend_schedule # None
        /\ stocks[i].dividend_schedule.next_payment_date # None
        /\ DateLE(from, stocks[i].dividend_schedule.next_payment_date)
        /\ DateLE(stocks[i].dividend_schedule.next_payment_date, to)}

(***************************************************************************)
(* C22: the upcoming-dividends query with a window of N days lists exactly *)
(* the holdings whose schedule has a next payment date with now <= date    *)
(* <= now + N days; a holding without a schedule, without a next payment   *)
(* date or with one in the past is never listed. Stated for portfolios     *)
(* whose holdings all carry the attributes the handler reads.              *)
(***************************************************************************)
C22_UpcomingWindow ==
    (/\ call.op = "api_upcoming_dividends"
     /\ \A i \in 1..Len(stocks) :
            {"symbol", "dividend_amount", "dividend_schedule"} \subseteq DOMAIN stocks[i])
        => /\ call.ret.raised = ""
           /\ Len(call.ret.val)
                = Cardinality(DueWithin(today, DatePlusDays(today, call.args[1])))
           /\ {call.ret.val[k].symbol : k \in 1..Len(call.ret.val)}
                = {stocks[i].ticker :
                      i \in DueWithin(today, DatePlusDays(today, call.args[1]))}

(***************************************************************************)
(* The window's analytics (gui.py): show_past lists the dividend rows      *)
(* whose ex-date lies before today and totals what they paid.              *)
(***************************************************************************)
\* rows.sort(key=ex_date, reverse=True): latest ex-date first, rows of the
\* same ex-date in the order they had (the texts are dates that strptime
\* accepted, so they sort as their dates do)
RECURSIVE sorted_by_ex_date_reverse(_)
sorted_by_ex_date_reverse(rows) ==
    IF rows = <<>> THEN <<>>
    ELSE CHOOSE r \in
           {LET k == Cardinality({i \in 1..Len(sd) :
                                    DateLE(strptime(d.ex_date).val,
                                           strptime(sd[i].ex_date).val)})
            IN  SubSeq(sd, 1, k) \o <<d>> \o SubSeq(sd, k + 1, Len(sd)) :
                sd \in {sorted_by_ex_date_reverse(SubSeq(rows, 1, Len(rows) - 1))},
                d \in {rows[Len(rows)]}} : TRUE

\* next((x['qty'] for x in self.portfolio if x['symbol'] == symbol), 0): the
\* quantity of the first holding row of the symbol as it is now, 0 without one
qty_now(holdings, symbol) ==
    IF \E i \in 1..Len(holdings) : holdings[i].symbol = symbol
    THEN holdings[CHOOSE i \in 1..Len(holdings) :
                     /\ holdings[i].symbol = symbol
                     /\ \A j \in 1..(i - 1) : holdings[j].symbol # symbol].qty
    ELSE 0

\* the rows of show_past: the dividend rows with an ex-date before today
past_rows(divs, td) ==
    sorted_by_ex_date_reverse(
        SelectSeq(divs, LAMBDA d : DateLT(strptime(d.ex_date).val, td)))

\* the loop of show_past over its rows: total += amount * quantity
RECURSIVE past_total(_, _, _)
past_total(holdings, rows, i) ==
    IF i = 0 THEN Zero
    ELSE DecAdd(past_total(holdings, rows, i - 1),
                DecMul(rows[i].amount, Dec(qty_now(holdings, rows[i].symbol))))

\* the lines show_past writes: a title, one line per row, the total
past_lines(holdings, divs, td) ==
    LET rows == past_rows(divs, td)
    IN  << <<"Past Dividends (by Ex-Date):">> >>
        \o [i \in 1..Len(rows) |->
              <<rows[i].ex_date, rows[i].symbol, format_2f(rows[i].amount)>>]
        \o << <<"Total Collected (recorded):",
                 format_2f(past_total(holdings, rows, Len(rows)))>> >>

\* DividendTrackerApp.show_past: _write_output replaces the text of the box
show_past ==
    /\ gui' = [gui EXCEPT !.output = past_lines(gui.portfolio, gui.dividends, today)]
    /\ call' = [op |-> "show_past", args |-> <<>>, ret |-> None]
    /\ UNCHANGED <<stocks, dividends, schedules, today>>

\* DividendTrackerApp.remove_selected_holding: nothing without a selection;
\* otherwise every holding row with the symbol of the first selected table
\* line goes and the table is refreshed. sel is the selection, as line numbers
remove_selected_holding(sel) ==
    /\ IF sel = <<>>
       THEN gui' = gui
       ELSE LET values == gui.portfolio_tv[sel[1]]
                symbol == values[1]
                rows == SelectSeq(gui.portfolio, LAMBDA x : x.symbol # symbol)
            IN  gui' = [gui EXCEPT !.portfolio = rows,
                                   !.portfolio_tv = portfolio_table(rows)]
    /\ call' = [op |-> "remove_selected_holding", args |-> <<sel>>, ret |-> None]
    /\ UNCHANGED <<stocks, dividends, schedules, today>>

(***************************************************************************)
(* The runs of the holding rows and the past dividends: holdings of two    *)
(* symbols bought and changed, dividends recorded with an ex-date before   *)
(* today (2024-03-15) and one after it, rows removed, the past shown.      *)
(***************************************************************************)
RowForms ==
    {HoldingForm(s, "", q) : s \in {" a ", "B"}, q \in {"2", "3"}}

PastDividendForms ==
    {[Symbol |-> " a ", ExDate |-> "2024-01-10", PayDate |-> "2024-01-15",
      Amount |-> "2.5"],
     [Symbol |-> "B", ExDate |-> "2024-02-10", PayDate |-> "2024-07-15",
      Amount |-> "2"],
     [Symbol |-> "B", ExDate |-> "2024-06-30", PayDate |-> "2024-07-15",
      Amount |-> "2"]}

\* the selections the table allows: none, or lines of the table
Selections ==
    {<<>>} \cup {<<i>> : i \in 1..Len(gui.portfolio_tv)}
           \cup {<<i, j>> : i, j \in 1..Len(gui.portfolio_tv)}

NextRows ==
    \/ \E f \in RowForms : add_update_holding(f)
    \/ \E f \in PastDividendForms :
            Len(gui.dividends) < MaxDividends /\ gui_add_dividend(f)
    \/ \E sel \in Selections : remove_selected_holding(sel)
    \/ show_past

SpecRows == InitYield /\ [][NextRows]_vars

(***************************************************************************)
(* C23: the total show_past reports for the recorded past dividends is     *)
(* that of the shares held when they were paid: while the dividend rows    *)
(* stay as they are, changing the quantity of a holding that has a row     *)
(* with add_update_holding, or removing the holding, does not change the   *)
(* 'Total Collected' that show_past has written and would write again.     *)
(***************************************************************************)
TotalCollected == past_lines(gui.portfolio, gui.dividends, today)[
                      Len(past_lines(gui.portfolio, gui.dividends, today))]

C23_PastTotalFixed ==
    [][(/\ call'.op \in {"add_update_holding", "remove_selected_holding"}
        /\ gui'.dividends = gui.dividends
        /\ Len(gui'.portfolio) <= Len(gui.portfolio)
        /\ gui.output # <<>>
        /\ gui.output[Len(gui.output)] = TotalCollected)
       => TotalCollected' = TotalCollected]_vars

(***************************************************************************)
(* C24: the holding rows of the window have one row per symbol. Starting   *)
(* from no rows, after any sequence of add_update_holding and              *)
(* remove_selected_holding no two rows share a symbol; an accepted form    *)
(* for a symbol that has a row (the symbol trimmed and in capitals)        *)
(* replaces that row where it is and leaves the other rows alone; a        *)
(* removal takes away every row of the selected symbol and no other row.   *)
(***************************************************************************)
\* the symbol a form's text stands for, and the quantity
NormalSymbol(text) == IF text = " a " THEN "A" ELSE text
QtyOf(text) == IF text = "2" THEN 2 ELSE 3

RowsOf(rows, symbol) == {i \in 1..Len(rows) : rows[i].symbol = symbol}

C24_OneRowPerSymbol ==
    [][/\ \A i, j \in 1..Len(gui'.portfolio) :
            gui'.portfolio[i].symbol = gui'.portfolio[j].symbol => i = j
       /\ (call'.op = "add_update_holding" /\ call'.args[1] \in RowForms) =>
            LET symbol == NormalSymbol(call'.args[1].Symbol)
                at == RowsOf(gui.portfolio, symbol)
            IN  /\ RowsOf(gui'.portfolio, symbol) # {}
                /\ \A i \in RowsOf(gui'.portfolio, symbol) :
                      gui'.portfolio[i].qty = QtyOf(call'.args[1].Qty)
                /\ at # {} =>
                      /\ Len(gui'.portfolio) = Len(gui.portfolio)
                      /\ RowsOf(gui'.portfolio, symbol) = at
                      /\ \A i \in 1..Len(gui.portfolio) :
                            i \notin at => gui'.portfolio[i] = gui.portfolio[i]
                /\ at = {} =>
                      SubSeq(gui'.portfolio, 1, Len(gui.portfolio)) = gui.portfolio
       /\ (call'.op = "remove_selected_holding" /\ call'.args[1] # <<>>) =>
            LET symbol == gui.portfolio[call'.args[1][1]].symbol
            IN  gui'.portfolio =
                    SelectSeq(gui.portfolio, LAMBDA x : x.symbol # symbol)
       /\ (call'.op = "remove_selected_holding" /\ call'.args[1] = <<>>) =>
            gui'.portfolio = gui.portfolio]_vars

\* the form for A arrived while A had the first of two rows: the row was
\* replaced where it was, before the row of B
C24_Witness ==
    /\ call.op = "add_update_holding"
    /\ NormalSymbol(call.args[1].Symbol) = "A"
    /\ call.args[1].Qty = "3"
    /\ Len(gui.portfolio) = 2
    /\ gui.portfolio[1].symbol = "A" /\ gui.portfolio[1].qty = 3
    /\ gui.portfolio[2].symbol = "B"

(***************************************************************************)
(* The window's analytics (gui.py): calculate_yield_projection, taken one  *)
(* statement at a time. The method's local variables are the frame of the  *)
(* call; the window runs one handler at a time, so no other handler acts   *)
(* while the frame is not done.                                            *)
(***************************************************************************)
MaxPayouts == 4

\* the first loop: one line per holding row with the yield on cost
yield_lines(rows) ==
    [i \in 1..Len(rows) |->
        LET invested == DecMul(Dec(rows[i].qty), rows[i].avg_price)
            income == DecMul(Dec(rows[i].qty), rows[i].fy_div)
            yoc == IF invested # Zero
                   THEN DecMul(DecDiv(income, invested).val, Hundred)
                   ELSE Zero
        IN  <<rows[i].symbol, format_2f(invested), format_2f(income), format_2f(yoc)>>]

\* max(1, x['freq'])
max_1(freq) == IF freq > 1 THEN freq ELSE 1

\* step = 12 // max(1, x['freq'])
step_of(x) == 12 \div max_1(x.freq)

\* amt_each = (x['qty'] * x['fy_div']) / max(1, x['freq'])
amt_each_of(x) ==
    DecDiv(DecMul(Dec(x.qty), x.fy_div), Dec(max_1(x.freq))).val

\* the end of the while body: nd moved step months forward, the day at most 28
move_months(nd, step) ==
    LET m == nd[2] + step
        d == IF nd[3] < 28 THEN nd[3] ELSE 28
    IN  Date(nd[1] + (m - 1) \div 12, ((m - 1) % 12) + 1, d)

\* upcoming.sort(key=lambda t: t[0]): earliest first, equal dates in the
\* order they had
RECURSIVE sorted_by_date(_)
sorted_by_date(upcoming) ==
    IF upcoming = <<>> THEN <<>>
    ELSE CHOOSE r \in
           {LET k == Cardinality({i \in 1..Len(su) : DateLE(su[i][1], t[1])})
            IN  SubSeq(su, 1, k) \o <<t>> \o SubSeq(su, k + 1, Len(su)) :
                su \in {sorted_by_date(SubSeq(upcoming, 1, Len(upcoming) - 1))},
                t \in {upcoming[Len(upcoming)]}} : TRUE

\* the lines written at the end: the yield lines, a title, upcoming[:20]
projection_lines(lines, upcoming) ==
    LET su == sorted_by_date(upcoming)
        first20 == SubSeq(su, 1, IF Len(su) < 20 THEN Len(su) ELSE 20)
    IN  lines \o << <<"Projection (next payouts):">> >>
        \o [i \in 1..Len(first20) |->
              <<isoformat(first20[i][1]), first20[i][2], format_2f(first20[i][3])>>]

\* a call of calculate_yield_projection has not reached its end
Running ==
    /\ call.op = "calculate_yield_projection"
    /\ call.frame.pc # "done"

Frame(pc, lines, x, nd, upcoming) ==
    [op |-> "calculate_yield_projection", args |-> <<>>, ret |-> None,
     frame |-> [pc |-> pc, lines |-> lines, x |-> x, nd |-> nd,
                upcoming |-> upcoming]]

\* the method is entered: the first loop has filled lines, the second loop
\* stands before the first row
projection_begin ==
    /\ ~Running
    /\ call' = Frame("for", yield_lines(gui.portfolio), 1, None, <<>>)
    /\ UNCHANGED <<stocks, dividends, schedules, today, gui>>

\* the head of the second for loop with a row left: a row without a next
\* date, or with one that strptime rejects, is passed over; otherwise nd is
\* the parsed date and the while loop is entered
projection_for ==
    /\ Running
    /\ call.frame.pc = "for"
    /\ call.frame.x <= Len(gui.portfolio)
    /\ LET f == call.frame
           x == gui.portfolio[f.x]
       IN  call' = IF x.next_div = "" \/ strptime(x.next_div).raised # ""
                   THEN Frame("for", f.lines, f.x + 1, None, f.upcoming)
                   ELSE Frame("while", f.lines, f.x, strptime(x.next_div).val,
                              f.upcoming)
    /\ UNCHANGED <<stocks, dividends, schedules, today, gui>>

\* the test and one pass of the while loop: past 31 December of this year
\* the loop is left for the next row; otherwise a date from today on is put
\* on the list and nd moves step months forward
projection_while ==
    /\ Running
    /\ call.frame.pc = "while"
    /\ LET f == call.frame
           x == gui.portfolio[f.x]
       IN  IF DateLE(f.nd, Date(today[1], 12, 31))
           THEN IF DateLE(today, f.nd)
                THEN /\ Len(f.upcoming) < MaxPayouts
                     /\ call' = Frame("while", f.lines, f.x,
                                      move_months(f.nd, step_of(x)),
                                      Append(f.upcoming,
                                             <<f.nd, x.symbol, amt_each_of(x)>>))
                ELSE call' = Frame("while", f.lines, f.x,
                                   move_months(f.nd, step_of(x)), f.upcoming)
           ELSE call' = Frame("for", f.lines, f.x + 1, None, f.upcoming)
    /\ UNCHANGED <<stocks, dividends, schedules, today, gui>>

\* after the last row: the list is sorted and the lines are written
projection_write ==
    /\ Running
    /\ call.frame.pc = "for"
    /\ call.frame.x > Len(gui.portfolio)
    /\ gui' = [gui EXCEPT !.output =
                    projection_lines(call.frame.lines, call.frame.upcoming)]
    /\ call' = Frame("done", call.frame.lines, call.frame.x, None,
                     call.frame.upcoming)
    /\ UNCHANGED <<stocks, dividends, schedules, today>>

\* DividendTrackerApp.calculate_yield_projection: the statement the running
\* call stands at
calculate_yield_projection ==
    \/ projection_for
    \/ projection_while
    \/ projection_write

(***************************************************************************)
(* The runs of the projection: today is 2024-03-15; holdings of A with a   *)
(* frequency of 0, -1, 3 and 20 payments a year and a next date before and *)
(* after today, holdings of B with and without a next date.                *)
(***************************************************************************)
ProjectionForms ==
    {[HoldingForm(" a ", "", "2") EXCEPT !.FyDiv = "2", !.Freq = fr, !.NextDiv = nx] :
        fr \in {"0", "-1", "3", "20"}, nx \in {"2024-01-10", "2024-06-30"}}
    \cup {[HoldingForm("B", "", "2") EXCEPT !.FyDiv = "2", !.Freq = "3", !.NextDiv = nx] :
        nx \in {"", "2024-06-30"}}

NextProjection ==
    \/ \E f \in ProjectionForms : ~Running /\ add_update_holding(f)
    \/ projection_begin
    \/ calculate_yield_projection

\* the interpreter goes on with the statement a running call stands at
SpecProjection ==
    InitYield /\ [][NextProjection]_vars /\ WF_vars(calculate_yield_projection)

(***************************************************************************)
(* C25: calculate_yield_projection terminates. Whatever rows the window    *)
(* holds, with a frequency of 0, below 0 or above 12 and any next dividend *)
(* date, a call that has been entered reaches its end: the loop passes 31  *)
(* December of the current year after finitely many payouts.               *)
(***************************************************************************)
C25_ProjectionTerminates ==
    (call.op = "calculate_yield_projection")
        ~> (call.op = "calculate_yield_projection" /\ call.frame.pc = "done")

(***************************************************************************)
(* C26: calculate_dividend_growth_rate depends on which events a ticker    *)
(* has, not on the order in which add_dividend received them: for every    *)
(* log that holds the same events in another order, two events with the    *)
(* same payment date included, the result for every ticker is the same.    *)
(***************************************************************************)
\* the logs that hold the events of the log in some order
Reorderings ==
    {[i \in 1..Len(dividends) |-> dividends[p[i]]] :
        p \in Permutations(1..Len(dividends))}

RECURSIVE SumOfEntries(_, _, _)
SumOfEntries(entries, field, n) ==
    IF n = 0 THEN Zero
    ELSE DecAdd(SumOfEntries(entries, field, n - 1), entries[n][field])

C27_SummaryConsistent ==
    call.op = "summary" =>
        /\ call.ret.raised = ""
        /\ LET summary == call.ret.val
               n == Len(summary.stocks)
           IN  /\ SumOfEntries(summary.stocks, "annual_dividend_income", n)
                      = summary.annual_dividend_income
               /\ SumOfEntries(summary.stocks, "total_value", n)
                      = summary.total_portfolio_value

(***************************************************************************)
(* The status of a payment event (models.py): Dividend.is_upcoming and     *)
(* Dividend.is_paid, with date.today() = td.                               *)
(***************************************************************************)
\* a plausible slip: the status is not looked at
is_upcoming_any_status(dividend, td) ==
    DateLT(td, dividend.payment_date)

\* Dividend.is_upcoming
is_upcoming(dividend, td) ==
    DateLT(td, dividend.payment_date) /\ dividend.payment_status # "paid"

\* Dividend.is_paid
is_paid(dividend, td) ==
    dividend.payment_status = "paid" \/ DateLT(dividend.payment_date, td)

\* a read of dividends[i].is_upcoming
CallIsUpcoming(i) ==
    /\ i \in 1..Len(dividends)
    /\ call' = [op |-> "is_upcoming", args |-> <<i>>,
                ret |-> is_upcoming(dividends[i], today)]
    /\ UNCHANGED <<stocks, dividends, schedules, today, gui>>

\* a read of dividends[i].is_paid
CallIsPaid(i) ==
    /\ i \in 1..Len(dividends)
    /\ call' = [op |-> "is_paid", args |-> <<i>>,
                ret |-> is_paid(dividends[i], today)]
    /\ UNCHANGED <<stocks, dividends, schedules, today, gui>>

(***************************************************************************)
(* The runs of the status: today is 2024-03-15; events paying the day      *)
(* before, today and the day after, in each of the three statuses.         *)
(***************************************************************************)
StatusDates == {Date(2024, 3, 14), Date(2024, 3, 15), Date(2024, 3, 16)}
Statuses == {"paid", "pending", "announced"}

StatusDividends ==
    {Dividend("A", d, One, One, s) : d \in StatusDates, s \in Statuses}

NextStatus ==
    \/ \E d \in StatusDividends : Len(dividends) < MaxDividends /\ add_dividend(d)
    \/ \E i \in 1..MaxDividends : CallIsUpcoming(i)
    \/ \E i \in 1..MaxDividends : CallIsPaid(i)

SpecStatus == InitYield /\ [][NextStatus]_vars

(***************************************************************************)
(* C28: for every payment event, in every status and on every current     *)
(* date, is_paid and is_upcoming are never both true, and they are both    *)
(* false only when the payment date is today and the status is not 'paid'. *)
(***************************************************************************)
C28_PaidXorUpcoming ==
    call.op \in {"is_paid", "is_upcoming"} =>
        LET dividend == dividends[call.args[1]]
            paid == IF call.op = "is_paid" THEN call.ret
                    ELSE is_paid(dividend, today)
            upcoming == IF call.op = "is_upcoming" THEN call.ret
                        ELSE is_upcoming(dividend, today)
        IN  /\ ~(paid /\ upcoming)
            /\ (~paid /\ ~upcoming) =>
                  /\ dividend.payment_date = today
                  /\ dividend.payment_status # "paid"

\* an event that is pending and pays today was asked: it is not paid, and
\* it is not upcoming either
C28_Witness ==
    /\ call.op = "is_paid"
    /\ call.ret = FALSE
    /\ dividends[call.args[1]].payment_date = today
    /\ dividends[call.args[1]].payment_status = "pending"
    /\ ~is_upcoming(dividends[call.args[1]], today)

====
